---- MODULE Spec2Model ----
(***************************************************************************)
(* Control-plane core of the EF100 driver (ef100_nic.c): the streaming TLV *)
(* design-parameter decoder, the phase-bit event-queue consumer and the    *)
(* MCDI transport primitives (reboot detection, one-slot buffer pool).     *)
(*                                                                         *)
(* Machine integers wider than 31 bits are kept as little-endian byte      *)
(* sequences (the u64 TLV value) or as 16-bit halves (the 32-bit status    *)
(* register), so that every operation keeps the width the C code has.      *)
(***************************************************************************)
EXTENDS Integers, Sequences, FiniteSets, TLC

(***************************************************************************)
(* Bounds of the model                                                     *)
(***************************************************************************)
MaxTriples == 2
RingOrder == 1
MaxProduced == 4
MaxQuota == 3
MaxMcdiRc == 2
MaxReboots == 3
MaxCallers == 2
MaxRequests == 3
MaxCapsCalls == 2
MaxResets == 2
MaxFilterCalls == 4

(***************************************************************************)
(* Program constants                                                       *)
(***************************************************************************)
EOPNOTSUPP == 95
EIO == 5
ENOMEM == 12
EINVAL == 22
ENETDOWN == 100

ESE_EF100_DP_GZ_PAD == 0
ESE_EF100_DP_GZ_TSO_MAX_HDR_LEN == 5
ESE_EF100_DP_GZ_TSO_MAX_HDR_NUM_SEGS == 6
ESE_EF100_DP_GZ_RXQ_SIZE_GRANULARITY == 7
ESE_EF100_DP_GZ_TXQ_SIZE_GRANULARITY == 8
ESE_EF100_DP_GZ_TSO_MAX_PAYLOAD_LEN == 9
ESE_EF100_DP_GZ_TSO_MAX_PAYLOAD_NUM_SEGS == 10
ESE_EF100_DP_GZ_TSO_MAX_NUM_FRAMES == 11
ESE_EF100_DP_GZ_COMPAT == 12
ESE_EF100_DP_GZ_RX_MAX_RUNT == 17
EFX_MIN_DMAQ_SIZE == 512
GSO_MAX_SIZE == 65536
ESE_EF100_DP_GZ_TSO_MAX_HDR_LEN_DEFAULT == 192
ESE_EF100_DP_GZ_TSO_MAX_NUM_FRAMES_DEFAULT == 8192
ESE_EF100_DP_GZ_TSO_MAX_PAYLOAD_NUM_SEGS_DEFAULT == 24
ESE_EF100_DP_GZ_TSO_MAX_PAYLOAD_LEN_DEFAULT == 4194240
PrimeInterval == 512
EF100_NUM_MCDI_BUFFERS == 1
BootCountTries == 5
SFT_STATUS_MAGIC == 45063
MC_CMD_GET_CAPABILITIES_V4_OUT_LEN == 78

VARIABLES
    \* ---- design-parameter scan (ef100_check_design_params) ----
    triples,      \* the triples the register window was encoded from
    window,       \* bytes of the ER_GZ_PARAMS_TLV register window
    total_len,    \* ER_GZ_PARAMS_TLV_LEN
    reader,       \* struct ef100_tlv_state
    offset,       \* u32 offset
    data,         \* u32 data, as 4 bytes, least significant first
    dp_i,         \* loop index i of the inner for loop
    dp_rc,        \* int rc
    dp_pc,        \* position in ef100_check_design_params
    limits,       \* nic_data->tso_max_* and net_dev->gso_max_*
    emitted,      \* (type, value) handed to the interpreter, in order
    fed,          \* number of bytes passed to ef100_tlv_feed
    tlv_ub,       \* a value byte was shifted by 64 bits or more
    \* ---- event queue of one channel ----
    ring,            \* the event ring: slot -> [phase, type, id]
    nproduced,       \* number of events the device has written
    enabled,         \* channel->enabled
    interrupt_mode,  \* efx->interrupt_mode
    eventq_read_ptr, \* channel->eventq_read_ptr
    evq_phases,      \* this channel's bit of nic_data->evq_phases
    ev_pc,           \* position in ef100_ev_process
    quota,           \* its argument
    spent,           \* its locals
    read_ptr,
    evq_phase,
    old_evq_phase,
    ev_ret,          \* its latest return value
    ev_on,           \* channel->enabled as its latest call read it
    dispatched,      \* ids of the events handed to a handler, in order
    mcdi_over,       \* an MCDI sub-handler returned more than it was given
    crossings,       \* times the current pass wrapped to slot 0
    ntoggles,        \* number of change_bit calls on the phase bit
    pend_pc,         \* position in ef100_ev_mcdi_pending
    pend_ptr,        \* its read_ptr, masked
    pend_phase,      \* its evq_phase
    pend_ret,        \* its latest return value
    pend_on,         \* channel->enabled as that call read it
    pend_stable,     \* the ring has not changed since that call began
    ev_acct,      \* of the pass of ef100_ev_process under way: the RX events
                  \* dispatched plus the positive counts and the errors of the
                  \* MCDI sub-handler, the errors alone, and whether the ring
                  \* was full of ready RX events when the pass began
    evq_prime,    \* ER_GZ_EVQ_INT_PRIME as last written: [id, idx]
    channel_id,   \* channel->channel
    \* ---- MCDI transport ----
    mc_sft_status,     \* ER_GZ_MC_SFT_STATUS as [hi, lo], two 16-bit words
    fw_boot_count,     \* the firmware's warm boot counter
    warm_boot_count,   \* nic_data->warm_boot_count
    state,             \* efx->state
    polled,            \* ef100_mcdi_poll_reboot has been called
    poll_status,       \* the status word its latest call read
    poll_before,       \* warm_boot_count when that call began
    poll_state_before, \* efx->state when that call began
    poll_since,        \* increments between the valid read before it and it
    poll_unavail,      \* an all-ones read was pending when it began
    poll_rc,           \* what ef100_get_warm_boot_count returned to it
    poll_ret,          \* what it returned
    since,             \* increments since the latest valid read
    unavail_seen,      \* an all-ones read not yet followed by a report
    nincrements,       \* increments of the firmware counter
    nreported,         \* polls that returned -EIO
    mcdi_buf_use,      \* nic_data->mcdi_buf_use
    buf_op,            \* the latest pool call: "none", "get" or "put"
    buf_prev,          \* the pool call before it
    buf_before,        \* mcdi_buf_use when the latest call began
    buf_id,            \* *bufid of a get, bufid of a put
    buf_ret,           \* return value of a get
    buf_warn,          \* an EFX_WARN_ON_PARANOID of a put fired
    busy_seen,         \* some get has returned false
    \* ---- MCDI transport: callers of the buffer and the doorbell ----
    iface_lock,   \* the MCDI iface lock: its holder, or 0
    mc_pc,        \* caller -> its position in one firmware request
    mc_bufid,     \* caller -> the bufid ef100_mcdi_get_buf gave it
    mc_req,       \* caller -> the request it is making
    mc_resp,      \* caller -> owner of the response it read last
    pdu,          \* slot -> contents of that slot of nic_data->mcdi_buf
    dma_base,     \* nic_data->mcdi_buf.dma_addr as [hi, lo], 32-bit words
    db_lwrd,      \* ER_GZ_MC_DB_LWRD as last written
    db_hwrd,      \* ER_GZ_MC_DB_HWRD as last written
    db_rung,      \* a request has been handed over and not yet answered
    io_log,       \* stores and register writes of the latest request, in order
    fw_taken,     \* the buffer as the firmware found it when the doorbell rang
    nrequests,    \* requests made so far
    \* ---- capability query (efx_ef100_init_datapath_caps) ----
    caps,         \* datapath_caps, datapath_caps2, vi_stride, the net device's
                  \* features and hw_features, num_mac_stats
    caps_before,  \* caps when the latest call began
    caps_in,      \* what the firmware and the stride lookup gave that call
    caps_ret,     \* what it returned
    ncaps_calls,  \* calls made so far
    \* ---- reset (ef100_reset) ----
    rdev,         \* filters_up, reset_pending, last_reset, the net device
                  \* attached and open, filter_sem held for writing
    rst_type,     \* reset_type of the latest ef100_reset call
    rst_in,       \* what the calls it made returned, and jiffies
    rst_before,   \* the device and efx->state when it began
    rst_ret,      \* what it returned
    rst_log,      \* the calls and stores it made, in order
    jiffies,      \* the clock
    map_reason,   \* argument of the latest ef100_map_reset_reason call
    map_result,   \* what it returned
    ftab,         \* the filter table: the VLANs whose filters are installed,
                  \* whether the table is up, and the latest transition
    \* ---- probe and remove (ef100_probe_main, ef100_remove) ----
    probe_pc,     \* where ef100_probe_main is
    probe_rc,     \* its rc, and its return value once it has returned
    probe_i,      \* i of the boot-count retry loop
    probe_fail,   \* the step that took the goto fail, or "none"
    nic_data_live,  \* the kzalloc'ed nic_data has not been freed
    efx_nic_data,   \* efx->nic_data: "NULL" or "nic_data"
    mcdi_buf_live,  \* nic_data->mcdi_buf is allocated and not freed
    port_num,     \* efx->port_num
    probe_log,    \* the calls and register writes made so far, in order
    \* two channels of one NIC
    chan,            \* per channel: its ring, its fields, its pass's locals
    nic_evq_phases   \* nic_data->evq_phases, the bitset all channels share

tlvVars == <<triples, window, total_len, reader, offset, data, dp_i, dp_rc,
             dp_pc, limits, emitted, fed, tlv_ub>>

evVars == <<ring, nproduced, enabled, interrupt_mode, eventq_read_ptr,
            evq_phases, ev_pc, quota, spent, read_ptr, evq_phase,
            old_evq_phase, ev_ret, ev_on, dispatched, mcdi_over, crossings,
            ntoggles, pend_pc, pend_ptr, pend_phase, pend_ret, pend_on, pend_stable,
            ev_acct, evq_prime, channel_id>>

mcdiVars == <<mc_sft_status, fw_boot_count, warm_boot_count, state, polled,
              poll_status, poll_before, poll_state_before, poll_since,
              poll_unavail, poll_rc, poll_ret, since, unavail_seen,
              nincrements, nreported, mcdi_buf_use, buf_op, buf_prev,
              buf_before, buf_id, buf_ret, buf_warn, busy_seen>>

xportVars == <<iface_lock, mc_pc, mc_bufid, mc_req, mc_resp, pdu, dma_base,
               db_lwrd, db_hwrd, db_rung, io_log, fw_taken, nrequests>>

capsVars == <<caps, caps_before, caps_in, caps_ret, ncaps_calls>>

resetVars == <<rdev, rst_type, rst_in, rst_before, rst_ret, rst_log, jiffies,
               map_reason, map_result, ftab>>

probeVars == <<probe_pc, probe_rc, probe_i, probe_fail, nic_data_live,
               efx_nic_data, mcdi_buf_live, port_num, probe_log>>

chanVars == <<chan, nic_evq_phases>>

otherVars == <<xportVars, capsVars, resetVars, probeVars, chanVars>>

vars == <<tlvVars, evVars, mcdiVars, otherVars>>

(***************************************************************************)
(* Bit operations on naturals                                              *)
(***************************************************************************)
RECURSIVE BitOr(_, _)
BitOr(a, b) ==
    IF a = 0 THEN b
    ELSE IF b = 0 THEN a
    ELSE (IF a % 2 = 1 \/ b % 2 = 1 THEN 1 ELSE 0) + 2 * BitOr(a \div 2, b \div 2)

RECURSIVE BitAnd(_, _)
BitAnd(a, b) ==
    IF a = 0 \/ b = 0 THEN 0
    ELSE (IF a % 2 = 1 /\ b % 2 = 1 THEN 1 ELSE 0) + 2 * BitAnd(a \div 2, b \div 2)

(***************************************************************************)
(* u64 values as 8 bytes, least significant first                          *)
(***************************************************************************)
U64Zero == [k \in 1..8 |-> 0]

U64IsZero(v) == \A k \in 1..8 : v[k] = 0

\* the value is below 2^24, so that it can be compared as a number
U64Small(v) == \A k \in 4..8 : v[k] = 0

U64Low(v) == v[1] + 256 * v[2] + 65536 * v[3]

\* A mutant of min_t: a value that is not below c is cut to 16 bits.
U64MinCast(v, c) == IF U64Small(v) /\ U64Low(v) < c THEN U64Low(v) ELSE U64Low(v) % 65536

\* min_t(u64, v, c) for a constant c < 2^24
U64Min(v, c) == IF U64Small(v) /\ U64Low(v) < c THEN U64Low(v) ELSE c

\* v > c for a constant c < 2^24
U64Greater(v, c) == ~U64Small(v) \/ U64Low(v) > c

\* (u32)v, when v <= c has been established (c < 2^24)
U64AsU32(v) == U64Low(v)

(***************************************************************************)
(* struct ef100_tlv_state and ef100_tlv_feed                               *)
(***************************************************************************)
ReaderZero ==
    [state |-> "TYPE", value |-> U64Zero, value_offset |-> 0, type |-> 0, len |-> 0]

\* state->value |= ((u64)byte) << (state->value_offset * 8)
ValueOrByte(v, byte, value_offset) ==
    IF value_offset < 8
    THEN [v EXCEPT ![value_offset + 1] = BitOr(@, byte)]
    ELSE v

\* A mutant of the TYPE_CONT case: the byte is shifted by 8.
TypeContShift8(type, byte) == BitOr(type, (byte * 256) % 65536)

\* state->type |= byte << 7: byte << 7 is an int, the u16 type keeps 16 bits
TypeCont(type, byte) == BitOr(type, (byte * 128) % 65536)

\* if (state->len > sizeof(state->value)) return -EOPNOTSUPP;
\* A mutant: a length of 9 passes.
LengthTooLongOffByOne(len) == len > 9

LengthTooLong(len) == len > 8

\* A mutant of ef100_tlv_feed: the TYPE state does not clear value.
TlvFeedKeepValue(r, byte) ==
    CASE r.state = "TYPE" ->
            [rc |-> 0, ub |-> FALSE,
             reader |-> [r EXCEPT !.type = BitAnd(byte, 127),
                                  !.state = IF BitAnd(byte, 128) # 0
                                            THEN "TYPE_CONT" ELSE "LENGTH",
                                  !.value_offset = 0]]
      [] r.state = "TYPE_CONT" ->
            [rc |-> 0, ub |-> FALSE,
             reader |-> [r EXCEPT !.type = TypeCont(@, byte),
                                  !.state = "LENGTH"]]
      [] r.state = "LENGTH" ->
            IF LengthTooLong(byte)
            THEN [rc |-> -EOPNOTSUPP, ub |-> FALSE, reader |-> [r EXCEPT !.len = byte]]
            ELSE [rc |-> 0, ub |-> FALSE,
                  reader |-> [r EXCEPT !.len = byte,
                                       !.state = IF byte # 0 THEN "VALUE" ELSE "TYPE"]]
      [] r.state = "VALUE" ->
            [rc |-> 0, ub |-> r.value_offset >= 8,
             reader |-> [r EXCEPT !.value = ValueOrByte(@, byte, r.value_offset),
                                  !.value_offset = @ + 1,
                                  !.state = IF r.value_offset + 1 >= r.len
                                            THEN "TYPE" ELSE "VALUE"]]
      [] OTHER -> [rc |-> -EIO, ub |-> FALSE, reader |-> r]

\* A mutant of ef100_tlv_feed: the LENGTH state accepts every length.
TlvFeedNoLengthCheck(r, byte) ==
    CASE r.state = "TYPE" ->
            [rc |-> 0, ub |-> FALSE,
             reader |-> [r EXCEPT !.type = BitAnd(byte, 127),
                                  !.state = IF BitAnd(byte, 128) # 0
                                            THEN "TYPE_CONT" ELSE "LENGTH",
                                  !.value = U64Zero,
                                  !.value_offset = 0]]
      [] r.state = "TYPE_CONT" ->
            [rc |-> 0, ub |-> FALSE,
             reader |-> [r EXCEPT !.type = TypeCont(@, byte),
                                  !.state = "LENGTH"]]
      [] r.state = "LENGTH" ->
            [rc |-> 0, ub |-> FALSE,
             reader |-> [r EXCEPT !.len = byte,
                                  !.state = IF byte # 0 THEN "VALUE" ELSE "TYPE"]]
      [] r.state = "VALUE" ->
            [rc |-> 0, ub |-> r.value_offset >= 8,
             reader |-> [r EXCEPT !.value = ValueOrByte(@, byte, r.value_offset),
                                  !.value_offset = @ + 1,
                                  !.state = IF r.value_offset + 1 >= r.len
                                            THEN "TYPE" ELSE "VALUE"]]
      [] OTHER -> [rc |-> -EIO, ub |-> FALSE, reader |-> r]

\* ef100_tlv_feed(state, byte): the return code, the reader afterwards, and
\* whether the shift of the VALUE state was by 64 bits or more.
ef100_tlv_feed(r, byte) ==
    CASE r.state = "TYPE" ->
            [rc |-> 0, ub |-> FALSE,
             reader |-> [r EXCEPT !.type = BitAnd(byte, 127),
                                  !.state = IF BitAnd(byte, 128) # 0
                                            THEN "TYPE_CONT" ELSE "LENGTH",
                                  !.value = U64Zero,
                                  !.value_offset = 0]]
      [] r.state = "TYPE_CONT" ->
            [rc |-> 0, ub |-> FALSE,
             reader |-> [r EXCEPT !.type = TypeCont(@, byte),
                                  !.state = "LENGTH"]]
      [] r.state = "LENGTH" ->
            \* len is assigned before the check; sizeof(state->value) is 8
            IF LengthTooLong(byte)
            THEN [rc |-> -EOPNOTSUPP, ub |-> FALSE, reader |-> [r EXCEPT !.len = byte]]
            ELSE [rc |-> 0, ub |-> FALSE,
                  reader |-> [r EXCEPT !.len = byte,
                                       !.state = IF byte # 0 THEN "VALUE" ELSE "TYPE"]]
      [] r.state = "VALUE" ->
            [rc |-> 0, ub |-> r.value_offset >= 8,
             reader |-> [r EXCEPT !.value = ValueOrByte(@, byte, r.value_offset),
                                  !.value_offset = @ + 1,
                                  !.state = IF r.value_offset + 1 >= r.len
                                            THEN "TYPE" ELSE "VALUE"]]
      [] OTHER -> [rc |-> -EIO, ub |-> FALSE, reader |-> r]

(***************************************************************************)
(* ef100_process_design_param                                              *)
(***************************************************************************)
LimitsDefault ==
    [tso_max_hdr_len |-> ESE_EF100_DP_GZ_TSO_MAX_HDR_LEN_DEFAULT,
     tso_max_frames |-> ESE_EF100_DP_GZ_TSO_MAX_NUM_FRAMES_DEFAULT,
     tso_max_payload_num_segs |-> ESE_EF100_DP_GZ_TSO_MAX_PAYLOAD_NUM_SEGS_DEFAULT,
     tso_max_payload_len |-> ESE_EF100_DP_GZ_TSO_MAX_PAYLOAD_LEN_DEFAULT,
     gso_max_size |-> GSO_MAX_SIZE,
     gso_max_segs |-> 65535]

\* the granularity test of the RXQ/TXQ cases fails
BadGranularity(v) ==
    \/ U64IsZero(v)
    \/ U64Greater(v, EFX_MIN_DMAQ_SIZE)
    \/ EFX_MIN_DMAQ_SIZE % U64AsU32(v) # 0

\* the types that a case of the switch names: the design parameters from
\* ESE_EF100_DP_GZ_PAD to ESE_EF100_DP_GZ_RX_MAX_RUNT
RecognisedTypes == ESE_EF100_DP_GZ_PAD..ESE_EF100_DP_GZ_RX_MAX_RUNT

\* A mutant of ef100_process_design_param: a type that no case names is
\* refused.
DesignParamRefusesUnknown(lim, r) ==
    CASE r.type = ESE_EF100_DP_GZ_TSO_MAX_HDR_LEN ->
            [rc |-> 0, limits |-> [lim EXCEPT !.tso_max_hdr_len = U64Min(r.value, 65535)]]
      [] r.type = ESE_EF100_DP_GZ_TSO_MAX_HDR_NUM_SEGS ->
            [rc |-> IF U64IsZero(r.value) THEN -EOPNOTSUPP ELSE 0, limits |-> lim]
      [] r.type \in {ESE_EF100_DP_GZ_RXQ_SIZE_GRANULARITY,
                     ESE_EF100_DP_GZ_TXQ_SIZE_GRANULARITY} ->
            [rc |-> IF BadGranularity(r.value) THEN -EOPNOTSUPP ELSE 0, limits |-> lim]
      [] r.type = ESE_EF100_DP_GZ_TSO_MAX_PAYLOAD_LEN ->
            [rc |-> 0,
             limits |-> [lim EXCEPT !.tso_max_payload_len = U64Min(r.value, GSO_MAX_SIZE),
                                    !.gso_max_size = U64Min(r.value, GSO_MAX_SIZE)]]
      [] r.type = ESE_EF100_DP_GZ_TSO_MAX_PAYLOAD_NUM_SEGS ->
            [rc |-> 0,
             limits |-> [lim EXCEPT !.tso_max_payload_num_segs = U64Min(r.value, 65535),
                                    !.gso_max_segs = U64Min(r.value, 65535)]]
      [] r.type = ESE_EF100_DP_GZ_TSO_MAX_NUM_FRAMES ->
            [rc |-> 0, limits |-> [lim EXCEPT !.tso_max_frames = U64Min(r.value, 65535)]]
      [] r.type = ESE_EF100_DP_GZ_COMPAT ->
            [rc |-> IF U64IsZero(r.value) THEN 0 ELSE -EOPNOTSUPP, limits |-> lim]
      [] r.type \in RecognisedTypes -> [rc |-> 0, limits |-> lim]
      [] OTHER -> [rc |-> -EOPNOTSUPP, limits |-> lim]

\* ef100_process_design_param(efx, reader): the return code and the limits
ef100_process_design_param(lim, r) ==
    CASE r.type = ESE_EF100_DP_GZ_TSO_MAX_HDR_LEN ->
            [rc |-> 0, limits |-> [lim EXCEPT !.tso_max_hdr_len = U64Min(r.value, 65535)]]
      [] r.type = ESE_EF100_DP_GZ_TSO_MAX_HDR_NUM_SEGS ->
            [rc |-> IF U64IsZero(r.value) THEN -EOPNOTSUPP ELSE 0, limits |-> lim]
      [] r.type \in {ESE_EF100_DP_GZ_RXQ_SIZE_GRANULARITY,
                     ESE_EF100_DP_GZ_TXQ_SIZE_GRANULARITY} ->
            [rc |-> IF BadGranularity(r.value) THEN -EOPNOTSUPP ELSE 0, limits |-> lim]
      [] r.type = ESE_EF100_DP_GZ_TSO_MAX_PAYLOAD_LEN ->
            [rc |-> 0,
             limits |-> [lim EXCEPT !.tso_max_payload_len = U64Min(r.value, GSO_MAX_SIZE),
                                    !.gso_max_size = U64Min(r.value, GSO_MAX_SIZE)]]
      [] r.type = ESE_EF100_DP_GZ_TSO_MAX_PAYLOAD_NUM_SEGS ->
            [rc |-> 0,
             limits |-> [lim EXCEPT !.tso_max_payload_num_segs = U64Min(r.value, 65535),
                                    !.gso_max_segs = U64Min(r.value, 65535)]]
      [] r.type = ESE_EF100_DP_GZ_TSO_MAX_NUM_FRAMES ->
            [rc |-> 0, limits |-> [lim EXCEPT !.tso_max_frames = U64Min(r.value, 65535)]]
      [] r.type = ESE_EF100_DP_GZ_COMPAT ->
            [rc |-> IF U64IsZero(r.value) THEN 0 ELSE -EOPNOTSUPP, limits |-> lim]
      \* the other cases (PAD, .., RX_MAX_RUNT) return 0 and change nothing
      [] r.type \in RecognisedTypes -> [rc |-> 0, limits |-> lim]
      \* default: the parameter is ignored
      [] OTHER -> [rc |-> 0, limits |-> lim]

(***************************************************************************)
(* The register window and the triples it encodes                          *)
(***************************************************************************)
TypeSet == {0, 5, 6, 12, 133, 32767}

ValueBytesSet ==
    {<<>>, <<1>>, <<52, 18>>, <<0, 0, 1>>, <<255, 255, 255, 255, 255, 255, 255, 255>>}

\* well-formed triples: the length byte is the number of value bytes
GoodTriples == {[type |-> t, len |-> Len(b), bytes |-> b] : t \in TypeSet, b \in ValueBytesSet}

\* triples whose declared length exceeds the accumulator
LongTriples == {[type |-> 5, len |-> 9, bytes |-> <<>>],
                [type |-> 133, len |-> 255, bytes |-> <<>>]}

TripleSet == GoodTriples \cup LongTriples

TripleSeqs == UNION {[1..n -> TripleSet] : n \in 0..MaxTriples}

PadBytes == {0, 255}

EncodeType(t) == IF t < 128 THEN <<t>> ELSE <<128 + (t % 128), t \div 128>>

EncodeTriple(t) == EncodeType(t.type) \o <<t.len>> \o t.bytes

RECURSIVE EncodeAll(_)
EncodeAll(ts) == IF ts = <<>> THEN <<>> ELSE EncodeTriple(Head(ts)) \o EncodeAll(Tail(ts))

\* the bytes of the window: the stream, then pad up to a whole register
PadTo4(bs, pad) == bs \o [k \in 1..((4 - (Len(bs) % 4)) % 4) |-> pad]

\* the (type, value) pair a well-formed triple stands for
PairOf(t) ==
    [type |-> t.type,
     value |-> [k \in 1..8 |-> IF k <= Len(t.bytes) THEN t.bytes[k] ELSE 0]]

WellFormed(ts) == \A k \in 1..Len(ts) : ts[k] \in GoodTriples

\* the pairs of the triples whose encoding ends within the first n bytes
RECURSIVE PairsWithin(_, _)
PairsWithin(ts, n) ==
    IF ts = <<>> \/ Len(EncodeTriple(Head(ts))) > n THEN <<>>
    ELSE <<PairOf(Head(ts))>> \o PairsWithin(Tail(ts), n - Len(EncodeTriple(Head(ts))))

(***************************************************************************)
(* ef100_check_design_params                                               *)
(***************************************************************************)
InitTlv ==
    /\ triples \in TripleSeqs
    /\ \E pad \in PadBytes : window = PadTo4(EncodeAll(triples), pad)
    /\ total_len = Len(EncodeAll(triples))
    /\ reader = ReaderZero
    /\ offset = 0
    /\ data = <<0, 0, 0, 0>>
    /\ dp_i = 0
    /\ dp_rc = 0
    /\ dp_pc = "while"
    /\ limits = LimitsDefault
    /\ emitted = <<>>
    /\ fed = 0
    /\ tlv_ub = FALSE

\* A window that opens with a two-byte type: a first byte with bit 7 set, any
\* kind of second byte, then a length.
ContFirstBytes == {128, 133, 255}

ContSecondBytes == {0, 1, 127, 128, 255}

InitCont ==
    /\ triples = <<>>
    /\ \E b0 \in ContFirstBytes, b1 \in ContSecondBytes, l \in {0, 1, 9} :
          window = <<b0, b1, l, 0>>
    /\ total_len = 4
    /\ reader = ReaderZero
    /\ offset = 0
    /\ data = <<0, 0, 0, 0>>
    /\ dp_i = 0
    /\ dp_rc = 0
    /\ dp_pc = "while"
    /\ limits = LimitsDefault
    /\ emitted = <<>>
    /\ fed = 0
    /\ tlv_ub = FALSE

\* Windows of triples that set the TSO limits, with values below, at and
\* above the maxima.
TsoTripleSet ==
    {[type |-> t, len |-> Len(b), bytes |-> b] :
        t \in {ESE_EF100_DP_GZ_TSO_MAX_HDR_LEN, ESE_EF100_DP_GZ_TSO_MAX_PAYLOAD_LEN,
               ESE_EF100_DP_GZ_TSO_MAX_PAYLOAD_NUM_SEGS,
               ESE_EF100_DP_GZ_TSO_MAX_NUM_FRAMES},
        b \in {<<7>>, <<255, 255>>, <<0, 0, 1>>, <<1, 0, 1>>,
               <<0, 0, 0, 0, 0, 0, 0, 1>>}}

TsoTripleSeqs == UNION {[1..n -> TsoTripleSet] : n \in 0..MaxTriples}

InitTso ==
    /\ triples \in TsoTripleSeqs
    /\ \E pad \in PadBytes : window = PadTo4(EncodeAll(triples), pad)
    /\ total_len = Len(EncodeAll(triples))
    /\ reader = ReaderZero
    /\ offset = 0
    /\ data = <<0, 0, 0, 0>>
    /\ dp_i = 0
    /\ dp_rc = 0
    /\ dp_pc = "while"
    /\ limits = LimitsDefault
    /\ emitted = <<>>
    /\ fed = 0
    /\ tlv_ub = FALSE

\* while (offset < total_len) { efx_readd(.., ER_GZ_PARAMS_TLV + offset); ..
DpReadDword ==
    /\ dp_pc = "while"
    /\ IF offset < total_len
       THEN /\ data' = [k \in 1..4 |-> window[offset + k]]
            /\ dp_i' = 0
            /\ dp_pc' = "for"
       ELSE /\ dp_pc' = "out"
            /\ UNCHANGED <<data, dp_i>>
    /\ UNCHANGED <<triples, window, total_len, reader, offset, dp_rc, limits,
                   emitted, fed, tlv_ub>>
    /\ UNCHANGED <<evVars, mcdiVars>>
    /\ UNCHANGED otherVars

\* Windows whose stream stops inside a triple: the length register holds
\* fewer bytes than the triples written to the window need. The triples set
\* limits or have a two-byte type no case names; all are accepted.
TruncTripleSet ==
    {[type |-> t, len |-> Len(b), bytes |-> b] :
        t \in {ESE_EF100_DP_GZ_TSO_MAX_HDR_LEN, ESE_EF100_DP_GZ_TSO_MAX_NUM_FRAMES, 133},
        b \in {<<>>, <<7>>, <<255, 255>>, <<0, 0, 1>>}}

TruncTripleSeqs == UNION {[1..n -> TruncTripleSet] : n \in 1..MaxTriples}

\* the number of bytes of the triples whose encoding ends within the first
\* n bytes
RECURSIVE BoundaryWithin(_, _)
BoundaryWithin(ts, n) ==
    IF ts = <<>> \/ Len(EncodeTriple(Head(ts))) > n THEN 0
    ELSE Len(EncodeTriple(Head(ts))) +
         BoundaryWithin(Tail(ts), n - Len(EncodeTriple(Head(ts))))

\* the first n bytes end inside a triple
MidTriple(ts, n) == n < Len(EncodeAll(ts)) /\ BoundaryWithin(ts, n) < n

InitTrunc ==
    /\ triples \in TruncTripleSeqs
    /\ total_len \in 1..Len(EncodeAll(triples))
    /\ MidTriple(triples, total_len)
    /\ \E pad \in PadBytes :
          window = PadTo4(SubSeq(EncodeAll(triples), 1, total_len), pad)
    /\ reader = ReaderZero
    /\ offset = 0
    /\ data = <<0, 0, 0, 0>>
    /\ dp_i = 0
    /\ dp_rc = 0
    /\ dp_pc = "while"
    /\ limits = LimitsDefault
    /\ emitted = <<>>
    /\ fed = 0
    /\ tlv_ub = FALSE

\* A mutant of the test: the reader's state is not looked at.
GotCompleteValueAnyState(rc, rdr) == rc = 0

\* Got a complete value?  if (!rc && reader.state == EF100_TLV_TYPE)
GotCompleteValue(rc, rdr) == rc = 0 /\ rdr.state = "TYPE"

\* one iteration of for (i = 0; i < sizeof(data); i++)
DpFeedByte ==
    /\ dp_pc = "for"
    /\ LET f == ef100_tlv_feed(reader, data[1])      \* (u8)data
           complete == GotCompleteValue(f.rc, f.reader)
           p == IF complete
                THEN ef100_process_design_param(limits, f.reader)
                ELSE [rc |-> f.rc, limits |-> limits]
       IN /\ reader' = f.reader
          /\ tlv_ub' = (tlv_ub \/ f.ub)
          /\ fed' = fed + 1
          /\ emitted' = IF complete
                        THEN Append(emitted, [type |-> f.reader.type,
                                              value |-> f.reader.value])
                        ELSE emitted
          /\ limits' = p.limits
          /\ dp_rc' = p.rc
          /\ IF p.rc # 0
             THEN /\ dp_pc' = "out"
                  /\ UNCHANGED <<data, offset, dp_i>>
             ELSE /\ data' = <<data[2], data[3], data[4], 0>>     \* data >>= 8
                  /\ offset' = offset + 1
                  /\ dp_i' = dp_i + 1
                  /\ dp_pc' = IF dp_i + 1 < 4 THEN "for" ELSE "while"
    /\ UNCHANGED <<triples, window, total_len>>
    /\ UNCHANGED <<evVars, mcdiVars>>
    /\ UNCHANGED otherVars

NextTlv == DpReadDword \/ DpFeedByte

\* the scan has not started on an empty window: the state of the decoder
\* while the other components run
QuietTlv ==
    /\ triples = <<>>
    /\ window = <<>>
    /\ total_len = 0
    /\ reader = ReaderZero
    /\ offset = 0
    /\ data = <<0, 0, 0, 0>>
    /\ dp_i = 0
    /\ dp_rc = 0
    /\ dp_pc = "while"
    /\ limits = LimitsDefault
    /\ emitted = <<>>
    /\ fed = 0
    /\ tlv_ub = FALSE

(***************************************************************************)
(* The event ring of one channel                                           *)
(***************************************************************************)
RingSize == 2 ^ RingOrder

eventq_mask == RingSize - 1

EvTypes == {"RX_PKTS", "TX_COMPLETION", "MCDI", "DRIVER", "UNKNOWN"}

\* efx_event(channel, index): the entry at index & eventq_mask
efx_event(index) == ring[index % RingSize]

\* while (spent < quota)
\* A mutant: the loop runs once more.
LoopCondOffByOne(s, q) == s <= q

LoopCond(s, q) == s < q

\* ++read_ptr; if ((read_ptr & channel->eventq_mask) == 0) evq_phase = !evq_phase;
\* (the argument is the incremented read_ptr)
\* A mutant: the expected phase is never flipped.
PhaseNeverFlips(rp, phase) == phase

PhaseAfterAdvance(rp, phase) == IF rp % RingSize = 0 THEN 1 - phase ELSE phase

\* if (evq_phase != old_evq_phase) change_bit(channel->channel, nic_data->evq_phases);
\* A mutant: the local phase is stored only when it is 1.
CommitPhaseSetOnly(stored, phase, old) == IF phase = 1 THEN 1 ELSE stored

\* A mutant: the bit is flipped by every pass.
CommitPhaseAlways(stored, phase, old) == 1 - stored

CommitPhase(stored, phase, old) == IF phase # old THEN 1 - stored ELSE stored

\* if (unlikely(!channel->enabled)) return ..: the test on entry to
\* ef100_ev_process and to ef100_ev_mcdi_pending
\* A mutant: the flag is not looked at.
EntryNeverReturns(en) == FALSE

EntryReturns(en) == ~en

\* A mutant of ef100_ev_mcdi: an error of the sub-handler counts for nothing.
EvMcdiDropsError(claimed, port_rc) ==
    LET rc == IF claimed THEN 0 ELSE port_rc
    IN  IF rc > 0 THEN rc ELSE 0

\* ef100_ev_mcdi: rc stays 0 when efx_mcdi_process_event claims the event,
\* and is otherwise what efx_mcdi_port_process_event_common stores in it
ef100_ev_mcdi(claimed, port_rc) ==
    LET rc == IF claimed THEN 0 ELSE port_rc
    IN  IF rc > 0 THEN rc ELSE IF rc < 0 THEN 1 ELSE 0

\* what the switch is given for one event: whether efx_mcdi_process_event
\* claims an MCDI event and the rc that efx_mcdi_port_process_event_common
\* stores otherwise (handlers outside this file: any outcome is possible)
EventInputs(ev_type) ==
    IF ev_type = "MCDI"
    THEN {[claimed |-> c, port_rc |-> r] : c \in BOOLEAN, r \in -1..MaxMcdiRc}
    ELSE {[claimed |-> FALSE, port_rc |-> 0]}

\* the switch on ev_type: what the event adds to spent
EventSpent(ev_type, in) ==
    CASE ev_type = "RX_PKTS" -> 1
      [] ev_type = "MCDI" -> ef100_ev_mcdi(in.claimed, in.port_rc)
      [] ev_type = "TX_COMPLETION" -> 0
      [] ev_type = "DRIVER" -> 0
      [] OTHER -> 0

\* what one event can add to spent
EventWork(ev_type) == {EventSpent(ev_type, in) : in \in EventInputs(ev_type)}

NoAcct == [sum |-> 0, err |-> 0, full_rx |-> FALSE]

\* EFX_POPULATE_DWORD_2(evq_prime, ERF_GZ_EVQ_ID, channel->channel,
\*     ERF_GZ_IDX, channel->eventq_read_ptr & channel->eventq_mask)
\* A mutant: the read pointer goes into the register unmasked.
ReadAckUnmasked(id, rp) == [id |-> id, idx |-> rp]

ef100_ev_read_ack(id, rp) == [id |-> id, idx |-> rp % RingSize]

\* the register before the driver has written it
PrimeUnwritten == [id |-> -1, idx |-> -1]

\* State after efx_init_eventq: the ring filled with 0xff bytes (phase 1, a
\* type no case names), read pointer 0, and ef100_ev_init's phase 0.
EvAtRest ==
    /\ ring = [s \in 0..eventq_mask |-> [phase |-> 1, type |-> "UNKNOWN", id |-> 0]]
    /\ nproduced = 0
    /\ enabled = TRUE
    /\ eventq_read_ptr = 0
    /\ evq_phases = 0
    /\ ev_pc = "idle"
    /\ quota = 0
    /\ spent = 0
    /\ read_ptr = 0
    /\ evq_phase = 0
    /\ old_evq_phase = 0
    /\ ev_ret = 0
    /\ ev_on = TRUE
    /\ dispatched = <<>>
    /\ mcdi_over = FALSE
    /\ crossings = 0
    /\ ntoggles = 0
    /\ pend_pc = "idle"
    /\ pend_ptr = 0
    /\ pend_phase = 0
    /\ pend_ret = "none"
    /\ pend_on = FALSE
    /\ pend_stable = FALSE
    /\ ev_acct = NoAcct
    /\ evq_prime = PrimeUnwritten

InitEv ==
    /\ interrupt_mode \in {"MSIX", "POLLED"}
    /\ channel_id = 0
    /\ EvAtRest

QuietEv ==
    /\ interrupt_mode = "MSIX"
    /\ channel_id = 0
    /\ EvAtRest

\* entries the consumer has taken: the device does not write over the others
Consumed == IF ev_pc = "idle" THEN eventq_read_ptr ELSE read_ptr

\* The device writes the next event, in ring order, with the phase of its lap.
EvProduce ==
    /\ nproduced < MaxProduced
    /\ nproduced - Consumed < RingSize
    /\ \E t \in EvTypes :
          ring' = [ring EXCEPT ![nproduced % RingSize] =
                       [phase |-> (nproduced \div RingSize) % 2,
                        type |-> t,
                        id |-> nproduced + 1]]
    /\ nproduced' = nproduced + 1
    /\ pend_stable' = FALSE
    /\ UNCHANGED <<enabled, interrupt_mode, eventq_read_ptr, evq_phases, ev_pc,
                   quota, spent, read_ptr, evq_phase, old_evq_phase, ev_ret,
                   ev_on, dispatched, mcdi_over, crossings, ntoggles, pend_pc,
                   pend_ptr, pend_phase, pend_ret, pend_on>>
    /\ UNCHANGED <<ev_acct, evq_prime, channel_id>>
    /\ UNCHANGED <<tlvVars, mcdiVars>>
    /\ UNCHANGED otherVars

\* The channel is stopped or started by its owner.
\* (the flag is read only on entry to a call, so a change during a call
\* has the effect of a change right after it)
ChannelSetEnabled ==
    /\ ev_pc = "idle"
    /\ pend_pc = "idle"
    /\ enabled' = ~enabled
    /\ UNCHANGED <<ring, nproduced, interrupt_mode, eventq_read_ptr, evq_phases,
                   ev_pc, quota, spent, read_ptr, evq_phase, old_evq_phase,
                   ev_ret, ev_on, dispatched, mcdi_over, crossings, ntoggles,
                   pend_pc, pend_ptr, pend_phase, pend_ret, pend_on, pend_stable>>
    /\ UNCHANGED <<ev_acct, evq_prime, channel_id>>
    /\ UNCHANGED <<tlvVars, mcdiVars>>
    /\ UNCHANGED otherVars

\* ef100_ev_process, entry: the enabled test and the loads of the locals
EvProcessBegin ==
    /\ ev_pc = "idle"
    /\ pend_pc = "idle"
    \* the record of the latest ef100_ev_mcdi_pending call is dropped
    /\ pend_ret' = "none"
    /\ pend_on' = FALSE
    /\ pend_stable' = FALSE
    /\ UNCHANGED <<mcdi_over, crossings, evq_prime, channel_id>>
    /\ ev_on' = enabled
    /\ IF EntryReturns(enabled)
       THEN /\ ev_ret' = 0
            /\ UNCHANGED <<ev_pc, quota, spent, read_ptr, evq_phase, old_evq_phase,
                           ev_acct>>
       ELSE /\ \E q \in 0..MaxQuota : quota' = q
            /\ evq_phase' = evq_phases
            /\ old_evq_phase' = evq_phases
            /\ read_ptr' = eventq_read_ptr
            /\ spent' = 0
            /\ ev_pc' = "loop"
            /\ ev_acct' = [NoAcct EXCEPT
                              !.full_rx =
                                 /\ nproduced - eventq_read_ptr = RingSize
                                 /\ \A k \in 0..eventq_mask : ring[k].type = "RX_PKTS"]
            /\ UNCHANGED ev_ret
    /\ UNCHANGED <<ring, nproduced, enabled, interrupt_mode, eventq_read_ptr,
                   evq_phases, dispatched, ntoggles, pend_pc, pend_ptr,
                   pend_phase>>
    /\ UNCHANGED <<tlvVars, mcdiVars>>
    /\ UNCHANGED otherVars

\* ef100_ev_process, one test of the while condition and one loop body
EvProcessIter ==
    /\ ev_pc = "loop"
    /\ IF ~LoopCond(spent, quota) \/ efx_event(read_ptr).phase # evq_phase
       THEN /\ ev_pc' = "commit"
            /\ UNCHANGED <<spent, read_ptr, evq_phase, dispatched, mcdi_over,
                           crossings, eventq_read_ptr, ev_acct, evq_prime>>
       ELSE \E in \in EventInputs(efx_event(read_ptr).type) :
              LET ev == efx_event(read_ptr)
                  work == EventSpent(ev.type, in)
                  rc == IF in.claimed THEN 0 ELSE in.port_rc
              IN /\ spent' = spent + work
                 /\ ev_acct' =
                        [ev_acct EXCEPT
                           !.sum = CASE ev.type = "RX_PKTS" -> @ + 1
                                     [] ev.type = "MCDI" /\ rc > 0 -> @ + rc
                                     [] ev.type = "MCDI" /\ rc < 0 -> @ + 1
                                     [] OTHER -> @,
                           !.err = IF ev.type = "MCDI" /\ rc < 0 THEN @ + 1 ELSE @]
                 /\ mcdi_over' = (mcdi_over \/ (ev.type = "MCDI" /\ work > quota - spent))
                 /\ dispatched' = Append(dispatched, ev.id)
                 /\ read_ptr' = read_ptr + 1
                 /\ evq_phase' = PhaseAfterAdvance(read_ptr + 1, evq_phase)
                 /\ crossings' = IF (read_ptr + 1) % RingSize = 0
                                 THEN crossings + 1 ELSE crossings
                 /\ eventq_read_ptr' =
                        IF interrupt_mode = "POLLED" /\ (read_ptr + 1) % PrimeInterval = 0
                        THEN read_ptr + 1 ELSE eventq_read_ptr
                 \* ef100_ev_read_ack(channel) after that store
                 /\ evq_prime' =
                        IF interrupt_mode = "POLLED" /\ (read_ptr + 1) % PrimeInterval = 0
                        THEN ef100_ev_read_ack(channel_id, read_ptr + 1)
                        ELSE evq_prime
                 /\ ev_pc' = "loop"
    /\ UNCHANGED <<ring, nproduced, enabled, interrupt_mode, evq_phases, quota,
                   old_evq_phase, ev_ret, ev_on, ntoggles, pend_pc, pend_ptr,
                   pend_phase, pend_ret, pend_on, pend_stable, channel_id>>
    /\ UNCHANGED <<tlvVars, mcdiVars>>
    /\ UNCHANGED otherVars

\* ef100_ev_process, after the loop: commit read_ptr and the phase, return
EvProcessEnd ==
    /\ ev_pc = "commit"
    /\ eventq_read_ptr' = read_ptr
    /\ evq_phases' = CommitPhase(evq_phases, evq_phase, old_evq_phase)
    /\ ntoggles' = IF evq_phases' # evq_phases THEN ntoggles + 1 ELSE ntoggles
    /\ ev_ret' = IF interrupt_mode = "POLLED" THEN quota ELSE spent
    /\ ev_pc' = "idle"
    \* the locals go out of scope
    /\ quota' = 0
    /\ spent' = 0
    /\ read_ptr' = 0
    /\ evq_phase' = 0
    /\ old_evq_phase' = 0
    /\ mcdi_over' = FALSE
    /\ crossings' = 0
    /\ ev_acct' = NoAcct
    /\ UNCHANGED <<ring, nproduced, enabled, interrupt_mode, dispatched, ev_on,
                   pend_pc, pend_ptr, pend_phase, pend_ret, pend_on,
                   pend_stable, evq_prime, channel_id>>
    /\ UNCHANGED <<tlvVars, mcdiVars>>
    /\ UNCHANGED otherVars

\* ef100_ev_mcdi_pending, entry
EvMcdiPendingBegin ==
    /\ ev_pc = "idle"
    /\ pend_pc = "idle"
    /\ pend_on' = enabled
    /\ pend_stable' = TRUE
    /\ IF EntryReturns(enabled)
       THEN /\ pend_ret' = "false"
            /\ UNCHANGED <<pend_pc, pend_ptr, pend_phase>>
       ELSE /\ pend_phase' = evq_phases
            \* only read_ptr & eventq_mask is ever used by the scan
            /\ pend_ptr' = eventq_read_ptr % RingSize
            /\ pend_ret' = "none"
            /\ pend_pc' = "scan"
    \* the record of the latest ef100_ev_process call is dropped
    /\ ev_ret' = 0
    /\ ev_on' = TRUE
    /\ UNCHANGED <<ring, nproduced, enabled, interrupt_mode, eventq_read_ptr,
                   evq_phases, ev_pc, quota, spent, read_ptr, evq_phase,
                   old_evq_phase, dispatched, mcdi_over, crossings, ntoggles>>
    /\ UNCHANGED <<ev_acct, evq_prime, channel_id>>
    /\ UNCHANGED <<tlvVars, mcdiVars>>
    /\ UNCHANGED otherVars

\* ef100_ev_mcdi_pending, one iteration of for (;;)
EvMcdiPendingIter ==
    /\ pend_pc = "scan"
    /\ LET ev == efx_event(pend_ptr)
       IN  IF ev.phase # pend_phase
           THEN /\ pend_ret' = "false"
                /\ pend_pc' = "idle"
                /\ pend_ptr' = 0
                /\ pend_phase' = 0
           ELSE IF ev.type = "MCDI"
           THEN /\ pend_ret' = "true"
                /\ pend_pc' = "idle"
                /\ pend_ptr' = 0
                /\ pend_phase' = 0
           ELSE /\ pend_ptr' = (pend_ptr + 1) % RingSize
                /\ UNCHANGED <<pend_ret, pend_pc, pend_phase>>
    /\ UNCHANGED <<ring, nproduced, enabled, interrupt_mode, eventq_read_ptr,
                   evq_phases, ev_pc, quota, spent, read_ptr, evq_phase,
                   old_evq_phase, ev_ret, ev_on, dispatched, mcdi_over,
                   crossings, ntoggles, pend_on, pend_stable>>
    /\ UNCHANGED <<ev_acct, evq_prime, channel_id>>
    /\ UNCHANGED <<tlvVars, mcdiVars>>
    /\ UNCHANGED otherVars

NextEv ==
    \/ EvProduce
    \/ ChannelSetEnabled
    \/ EvProcessBegin
    \/ EvProcessIter
    \/ EvProcessEnd
    \/ EvMcdiPendingBegin
    \/ EvMcdiPendingIter

\* ef100_ev_read_ack(channel), called between the passes of the channel
EvReadAck ==
    /\ ev_pc = "idle"
    /\ evq_prime' = ef100_ev_read_ack(channel_id, eventq_read_ptr)
    /\ UNCHANGED <<ring, nproduced, enabled, interrupt_mode, eventq_read_ptr,
                   evq_phases, ev_pc, quota, spent, read_ptr, evq_phase,
                   old_evq_phase, ev_ret, ev_on, dispatched, mcdi_over,
                   crossings, ntoggles, pend_pc, pend_ptr, pend_phase,
                   pend_ret, pend_on, pend_stable, ev_acct, channel_id>>
    /\ UNCHANGED <<tlvVars, mcdiVars>>
    /\ UNCHANGED otherVars

\* the channel with its observers: the passes, the pending scan and the
\* acknowledgement
NextObs ==
    \/ EvProduce
    \/ EvProcessBegin
    \/ EvProcessIter
    \/ EvProcessEnd
    \/ EvMcdiPendingBegin
    \/ EvMcdiPendingIter
    \/ EvReadAck

(***************************************************************************)
(* ef100_ev_process against a device that never stops writing events. Only *)
(* read_ptr & eventq_mask and the lap parity matter to the loop, so the    *)
(* pointers are kept modulo two laps and no record of the dispatched       *)
(* events is kept: the state space is finite though the run is not.        *)
(***************************************************************************)
TwoLaps == 2 * RingSize

\* The device writes the next event whenever the ring has room.
FloodProduce ==
    /\ (nproduced - Consumed) % TwoLaps < RingSize
    /\ \E t \in EvTypes :
          ring' = [ring EXCEPT ![nproduced % RingSize] =
                       [phase |-> (nproduced \div RingSize) % 2,
                        type |-> t,
                        id |-> 0]]
    /\ nproduced' = (nproduced + 1) % TwoLaps
    /\ UNCHANGED <<enabled, interrupt_mode, eventq_read_ptr, evq_phases, ev_pc,
                   quota, spent, read_ptr, evq_phase, old_evq_phase, ev_ret,
                   ev_on, dispatched, mcdi_over, crossings, ntoggles, pend_pc,
                   pend_ptr, pend_phase, pend_ret, pend_on, pend_stable>>
    /\ UNCHANGED <<ev_acct, evq_prime, channel_id>>
    /\ UNCHANGED <<tlvVars, mcdiVars>>
    /\ UNCHANGED otherVars

\* ef100_ev_process, one test of the while condition and one loop body
FloodProcessIter ==
    /\ ev_pc = "loop"
    /\ IF ~LoopCond(spent, quota) \/ efx_event(read_ptr).phase # evq_phase
       THEN /\ ev_pc' = "commit"
            /\ UNCHANGED <<spent, read_ptr, evq_phase>>
       ELSE \E work \in EventWork(efx_event(read_ptr).type) :
                 /\ spent' = spent + work
                 /\ read_ptr' = (read_ptr + 1) % TwoLaps
                 /\ evq_phase' = PhaseAfterAdvance(read_ptr + 1, evq_phase)
                 /\ ev_pc' = "loop"
    /\ UNCHANGED <<ring, nproduced, enabled, interrupt_mode, eventq_read_ptr,
                   evq_phases, quota, old_evq_phase, ev_ret, ev_on, dispatched,
                   mcdi_over, crossings, ntoggles, pend_pc, pend_ptr,
                   pend_phase, pend_ret, pend_on, pend_stable>>
    /\ UNCHANGED <<ev_acct, evq_prime, channel_id>>
    /\ UNCHANGED <<tlvVars, mcdiVars>>
    /\ UNCHANGED otherVars

\* ef100_ev_process, after the loop: commit read_ptr and the phase, return
FloodProcessEnd ==
    /\ ev_pc = "commit"
    /\ eventq_read_ptr' = read_ptr
    /\ evq_phases' = CommitPhase(evq_phases, evq_phase, old_evq_phase)
    /\ ev_ret' = spent
    /\ ev_pc' = "idle"
    /\ quota' = 0
    /\ spent' = 0
    /\ read_ptr' = 0
    /\ evq_phase' = 0
    /\ old_evq_phase' = 0
    /\ UNCHANGED <<ring, nproduced, enabled, interrupt_mode, ev_on, dispatched,
                   mcdi_over, crossings, ntoggles, pend_pc, pend_ptr,
                   pend_phase, pend_ret, pend_on, pend_stable>>
    /\ UNCHANGED <<ev_acct, evq_prime, channel_id>>
    /\ UNCHANGED <<tlvVars, mcdiVars>>
    /\ UNCHANGED otherVars

NextFlood ==
    \/ FloodProduce
    \/ EvProcessBegin
    \/ FloodProcessIter
    \/ FloodProcessEnd

(***************************************************************************)
(* MCDI transport: reboot detection                                        *)
(***************************************************************************)
AllOnes(reg) == reg.hi = 65535 /\ reg.lo = 65535

\* A mutant of ef100_get_warm_boot_count: efx->state is left alone.
GetWarmBootCountNoDisable(reg) ==
    IF AllOnes(reg)
    THEN [rc |-> -ENETDOWN, disable |-> FALSE]
    ELSE [rc |-> IF reg.hi = SFT_STATUS_MAGIC THEN reg.lo ELSE -EIO, disable |-> FALSE]

\* A mutant of ef100_get_warm_boot_count: the magic is not examined.
GetWarmBootCountNoMagic(reg) ==
    IF AllOnes(reg)
    THEN [rc |-> -ENETDOWN, disable |-> TRUE]
    ELSE [rc |-> reg.lo, disable |-> FALSE]

\* ef100_get_warm_boot_count(efx): the return value, and whether efx->state
\* is set to STATE_DISABLED
ef100_get_warm_boot_count(reg) ==
    IF AllOnes(reg)
    THEN [rc |-> -ENETDOWN, disable |-> TRUE]
    ELSE [rc |-> IF reg.hi = SFT_STATUS_MAGIC THEN reg.lo ELSE -EIO, disable |-> FALSE]

\* A mutant of ef100_mcdi_poll_reboot: the new count is not stored.
PollRebootNoStore(reg, wbc) ==
    LET g == ef100_get_warm_boot_count(reg)
    IN  IF g.rc < 0
        THEN [ret |-> 0, warm_boot_count |-> wbc, rc |-> g.rc, disable |-> g.disable]
        ELSE IF g.rc = wbc
        THEN [ret |-> 0, warm_boot_count |-> wbc, rc |-> g.rc, disable |-> g.disable]
        ELSE [ret |-> -EIO, warm_boot_count |-> wbc, rc |-> g.rc, disable |-> g.disable]

\* ef100_mcdi_poll_reboot(efx): the return value, nic_data->warm_boot_count
\* afterwards, and what ef100_get_warm_boot_count returned and did
ef100_mcdi_poll_reboot(reg, wbc) ==
    LET g == ef100_get_warm_boot_count(reg)
    IN  IF g.rc < 0
        THEN [ret |-> 0, warm_boot_count |-> wbc, rc |-> g.rc, disable |-> g.disable]
        ELSE IF g.rc = wbc
        THEN [ret |-> 0, warm_boot_count |-> wbc, rc |-> g.rc, disable |-> g.disable]
        ELSE [ret |-> -EIO, warm_boot_count |-> g.rc, rc |-> g.rc, disable |-> g.disable]

\* what the status register can show while the firmware's counter is c:
\* all-ones, the magic with the counter, or a word without the magic
StatusSet(c) ==
    {[hi |-> 65535, lo |-> 65535],
     [hi |-> SFT_STATUS_MAGIC, lo |-> c],
     [hi |-> 0, lo |-> c],
     [hi |-> 65535, lo |-> 0]}

(***************************************************************************)
(* MCDI transport: the buffer pool                                         *)
(***************************************************************************)
\* ffz(word): index of the least significant zero bit
RECURSIVE ffz(_)
ffz(word) == IF word % 2 = 0 THEN 0 ELSE 1 + ffz(word \div 2)

test_bit(nr, word) == (word \div (2 ^ nr)) % 2 = 1

set_bit(nr, word) == IF test_bit(nr, word) THEN word ELSE word + 2 ^ nr

clear_bit(nr, word) == IF test_bit(nr, word) THEN word - 2 ^ nr ELSE word

\* A mutant of ef100_mcdi_get_buf: the bound is tested with <=.
GetBufOffByOne(use) ==
    LET bufid == ffz(use) % 256
    IN  IF bufid <= EF100_NUM_MCDI_BUFFERS
        THEN [ret |-> TRUE, bufid |-> bufid, use |-> set_bit(bufid, use)]
        ELSE [ret |-> FALSE, bufid |-> bufid, use |-> use]

\* ef100_mcdi_get_buf(efx, &bufid): return value, *bufid (a u8), mcdi_buf_use
ef100_mcdi_get_buf(use) ==
    LET bufid == ffz(use) % 256
    IN  IF bufid < EF100_NUM_MCDI_BUFFERS
        THEN [ret |-> TRUE, bufid |-> bufid, use |-> set_bit(bufid, use)]
        ELSE [ret |-> FALSE, bufid |-> bufid, use |-> use]

\* ef100_mcdi_put_buf(efx, bufid): mcdi_buf_use, and whether a paranoid
\* warning fired
ef100_mcdi_put_buf(use, bufid) ==
    [use |-> clear_bit(bufid, use),
     warn |-> (bufid >= EF100_NUM_MCDI_BUFFERS \/ ~test_bit(bufid, use))]

\* State after ef100_probe_main: the counter read from the status register
\* is stored, no buffer is in use.
McdiAtRest ==
    /\ mc_sft_status = [hi |-> SFT_STATUS_MAGIC, lo |-> fw_boot_count]
    /\ warm_boot_count = fw_boot_count
    /\ polled = FALSE
    /\ poll_status = [hi |-> 0, lo |-> 0]
    /\ poll_before = 0
    /\ poll_state_before = state
    /\ poll_since = 0
    /\ poll_unavail = FALSE
    /\ poll_rc = 0
    /\ poll_ret = 0
    /\ since = 0
    /\ unavail_seen = FALSE
    /\ nincrements = 0
    /\ nreported = 0
    /\ mcdi_buf_use = 0
    /\ buf_op = "none"
    /\ buf_prev = "none"
    /\ buf_before = 0
    /\ buf_id = 0
    /\ buf_ret = FALSE
    /\ buf_warn = FALSE
    /\ busy_seen = FALSE

InitMcdi ==
    /\ fw_boot_count \in {0, 65535}
    /\ state \in {"NET_DOWN", "NET_UP"}
    /\ McdiAtRest

QuietMcdi ==
    /\ fw_boot_count = 0
    /\ state = "NET_UP"
    /\ McdiAtRest

poolVars == <<mcdi_buf_use, buf_op, buf_prev, buf_before, buf_id, buf_ret,
              buf_warn, busy_seen>>

pollVars == <<warm_boot_count, state, polled, poll_status, poll_before,
              poll_state_before, poll_since, poll_unavail, poll_rc, poll_ret,
              unavail_seen, nreported>>

\* The management controller restarts: its counter (16 bits) goes up by one.
FwReboot ==
    /\ nincrements < MaxReboots
    /\ fw_boot_count' = (fw_boot_count + 1) % 65536
    /\ nincrements' = nincrements + 1
    /\ since' = since + 1
    /\ mc_sft_status' \in StatusSet(fw_boot_count')
    /\ UNCHANGED <<pollVars, poolVars>>
    /\ UNCHANGED <<tlvVars, evVars>>
    /\ UNCHANGED otherVars

\* The status register shows another word, the counter being the same.
StatusChange ==
    /\ mc_sft_status' \in StatusSet(fw_boot_count) \ {mc_sft_status}
    /\ UNCHANGED <<fw_boot_count, nincrements, since, pollVars, poolVars>>
    /\ UNCHANGED <<tlvVars, evVars>>
    /\ UNCHANGED otherVars

McdiPollReboot ==
    /\ LET r == ef100_mcdi_poll_reboot(mc_sft_status, warm_boot_count)
       IN /\ polled' = TRUE
          /\ poll_status' = mc_sft_status
          /\ poll_before' = warm_boot_count
          /\ poll_state_before' = state
          /\ poll_since' = since
          /\ poll_unavail' = unavail_seen
          /\ poll_rc' = r.rc
          /\ poll_ret' = r.ret
          /\ warm_boot_count' = r.warm_boot_count
          /\ state' = IF r.disable THEN "DISABLED" ELSE state
          /\ nreported' = IF r.ret # 0 THEN nreported + 1 ELSE nreported
          /\ since' = IF r.rc >= 0 THEN 0 ELSE since
          /\ unavail_seen' = IF AllOnes(mc_sft_status) THEN TRUE
                             ELSE IF r.ret # 0 THEN FALSE
                             ELSE unavail_seen
    /\ UNCHANGED <<mc_sft_status, fw_boot_count, nincrements, poolVars>>
    /\ UNCHANGED <<tlvVars, evVars>>
    /\ UNCHANGED otherVars

McdiGetBuf ==
    /\ LET g == ef100_mcdi_get_buf(mcdi_buf_use)
       IN /\ mcdi_buf_use' = g.use
          /\ buf_ret' = g.ret
          /\ buf_id' = g.bufid
          /\ busy_seen' = (busy_seen \/ ~g.ret)
    /\ buf_op' = "get"
    /\ buf_prev' = buf_op
    /\ buf_before' = mcdi_buf_use
    /\ buf_warn' = FALSE
    /\ UNCHANGED <<mc_sft_status, fw_boot_count, nincrements, since, pollVars>>
    /\ UNCHANGED <<tlvVars, evVars>>
    /\ UNCHANGED otherVars

McdiPutBuf ==
    /\ \E bufid \in 0..EF100_NUM_MCDI_BUFFERS :
          LET q == ef100_mcdi_put_buf(mcdi_buf_use, bufid)
          IN /\ mcdi_buf_use' = q.use
             /\ buf_warn' = q.warn
             /\ buf_id' = bufid
    /\ buf_op' = "put"
    /\ buf_prev' = buf_op
    /\ buf_before' = mcdi_buf_use
    /\ buf_ret' = FALSE
    /\ UNCHANGED busy_seen
    /\ UNCHANGED <<mc_sft_status, fw_boot_count, nincrements, since, pollVars>>
    /\ UNCHANGED <<tlvVars, evVars>>
    /\ UNCHANGED otherVars

NextMcdi ==
    \/ FwReboot
    \/ StatusChange
    \/ McdiPollReboot
    \/ McdiGetBuf
    \/ McdiPutBuf

(***************************************************************************)
(* MCDI transport: one firmware request through the shared buffer          *)
(***************************************************************************)
Callers == 1..MaxCallers

Slots == 0..(EF100_NUM_MCDI_BUFFERS - 1)

\* ef100_mcdi_buf(efx, bufid, &dma_addr): the slot and its bus address
\* (bufid * ALIGN(MCDI_BUF_LEN, 256) is 0 for slot 0, the only slot)
ef100_mcdi_buf(base, bufid) == [slot |-> bufid, dma_addr |-> base]

\* A mutant of ef100_mcdi_request: the request is not copied to the buffer.
McdiRequestNoCopy(base, bufid, hdr, hdr_len, sdu, sdu_len) ==
    LET b == ef100_mcdi_buf(base, bufid)
    IN  << [op |-> "wmb"],
           [op |-> "writed", reg |-> "ER_GZ_MC_DB_LWRD", val |-> b.dma_addr.hi],
           [op |-> "writed", reg |-> "ER_GZ_MC_DB_HWRD", val |-> b.dma_addr.lo] >>

\* A mutant of ef100_mcdi_request: the doorbell is written before the payload.
McdiRequestDoorbellEarly(base, bufid, hdr, hdr_len, sdu, sdu_len) ==
    LET b == ef100_mcdi_buf(base, bufid)
    IN  << [op |-> "memcpy", slot |-> b.slot, at |-> 0, len |-> hdr_len, src |-> hdr],
           [op |-> "wmb"],
           [op |-> "writed", reg |-> "ER_GZ_MC_DB_LWRD", val |-> b.dma_addr.hi],
           [op |-> "writed", reg |-> "ER_GZ_MC_DB_HWRD", val |-> b.dma_addr.lo],
           [op |-> "memcpy", slot |-> b.slot, at |-> hdr_len, len |-> sdu_len, src |-> sdu] >>

\* ef100_mcdi_request(efx, bufid, hdr, hdr_len, sdu, sdu_len): its stores and
\* register writes, in program order
ef100_mcdi_request(base, bufid, hdr, hdr_len, sdu, sdu_len) ==
    LET b == ef100_mcdi_buf(base, bufid)
    IN  << [op |-> "memcpy", slot |-> b.slot, at |-> 0, len |-> hdr_len, src |-> hdr],
           [op |-> "memcpy", slot |-> b.slot, at |-> hdr_len, len |-> sdu_len, src |-> sdu],
           [op |-> "wmb"],
           \* (u64)dma_addr >> 32, then (u32)dma_addr
           [op |-> "writed", reg |-> "ER_GZ_MC_DB_LWRD", val |-> b.dma_addr.hi],
           [op |-> "writed", reg |-> "ER_GZ_MC_DB_HWRD", val |-> b.dma_addr.lo] >>

\* the buffer and the doorbell after one store or register write; the
\* firmware takes a request when the second doorbell register is written,
\* and finds in the buffer what has been stored by then
IoStep(m, e) ==
    CASE e.op = "memcpy" /\ e.at = 0 ->
            [m EXCEPT !.pdu[e.slot].hdr = e.src, !.pdu[e.slot].hdr_len = e.len,
                      !.pdu[e.slot].response = FALSE]
      [] e.op = "memcpy" /\ e.at # 0 ->
            [m EXCEPT !.pdu[e.slot].sdu = e.src, !.pdu[e.slot].sdu_at = e.at]
      [] e.op = "writed" /\ e.reg = "ER_GZ_MC_DB_LWRD" -> [m EXCEPT !.lwrd = e.val]
      [] e.op = "writed" /\ e.reg = "ER_GZ_MC_DB_HWRD" ->
            [m EXCEPT !.hwrd = e.val, !.rung = TRUE,
                      !.taken = [s \in Slots |-> m.pdu[s]]]
      [] OTHER -> m

RECURSIVE IoRun(_, _)
IoRun(m, log) == IF log = <<>> THEN m ELSE IoRun(IoStep(m, Head(log)), Tail(log))

\* ef100_mcdi_poll_response(efx, bufid): the response bit of the header
ef100_mcdi_poll_response(p, bufid) == p[bufid].response

\* ef100_mcdi_read_response(efx, bufid, ..): the buffer's contents
ef100_mcdi_read_response(p, bufid) == p[bufid].hdr

NoRequest == [owner |-> 0, seq |-> 0]

EmptyPdu == [hdr |-> NoRequest, hdr_len |-> 0, sdu |-> NoRequest, sdu_at |-> 0,
             response |-> FALSE]

DmaBases == {[hi |-> 0, lo |-> 4096], [hi |-> 3, lo |-> 256]}

XportAtRest ==
    /\ iface_lock = 0
    /\ mc_pc = [c \in Callers |-> "idle"]
    /\ mc_bufid = [c \in Callers |-> 0]
    /\ mc_req = [c \in Callers |-> [seq |-> 0, hdr_len |-> 0, sdu_len |-> 0]]
    /\ mc_resp = [c \in Callers |-> NoRequest]
    /\ pdu = [s \in Slots |-> EmptyPdu]
    /\ db_lwrd = 0
    /\ db_hwrd = 0
    /\ db_rung = FALSE
    /\ io_log = <<>>
    /\ fw_taken = [s \in Slots |-> EmptyPdu]
    /\ nrequests = 0

InitXport ==
    /\ dma_base \in DmaBases
    /\ XportAtRest

QuietXport ==
    /\ dma_base = [hi |-> 0, lo |-> 4096]
    /\ XportAtRest

\* A caller has a request to make (header of 4 or 8 bytes, any payload).
McWant(c) ==
    /\ mc_pc[c] = "idle"
    /\ nrequests < MaxRequests
    /\ nrequests' = nrequests + 1
    /\ \E hl \in {4, 8}, sl \in {0, 4} :
          mc_req' = [mc_req EXCEPT ![c] = [seq |-> nrequests + 1, hdr_len |-> hl,
                                           sdu_len |-> sl]]
    /\ mc_pc' = [mc_pc EXCEPT ![c] = "want"]
    /\ UNCHANGED <<iface_lock, mc_bufid, mc_resp, pdu, dma_base, db_lwrd,
                   db_hwrd, db_rung, io_log, fw_taken>>
    /\ UNCHANGED <<tlvVars, evVars, mcdiVars>>
    /\ UNCHANGED <<capsVars, resetVars, probeVars, chanVars>>

\* The caller takes the MCDI iface lock.
McLock(c) ==
    /\ mc_pc[c] = "want"
    /\ iface_lock = 0
    /\ iface_lock' = c
    /\ mc_pc' = [mc_pc EXCEPT ![c] = "locked"]
    /\ UNCHANGED <<mc_bufid, mc_req, mc_resp, pdu, dma_base, db_lwrd, db_hwrd,
                   db_rung, io_log, fw_taken, nrequests>>
    /\ UNCHANGED <<tlvVars, evVars, mcdiVars>>
    /\ UNCHANGED <<capsVars, resetVars, probeVars, chanVars>>

\* ef100_mcdi_get_buf, called with the lock held
McGetBuf(c) ==
    /\ mc_pc[c] = "locked"
    /\ LET g == ef100_mcdi_get_buf(mcdi_buf_use)
       IN /\ mcdi_buf_use' = g.use
          /\ mc_bufid' = [mc_bufid EXCEPT ![c] = g.bufid]
          /\ mc_pc' = [mc_pc EXCEPT ![c] = IF g.ret THEN "got" ELSE "unlock"]
    /\ UNCHANGED <<iface_lock, mc_req, mc_resp, pdu, dma_base, db_lwrd, db_hwrd,
                   db_rung, io_log, fw_taken, nrequests>>
    /\ UNCHANGED <<mc_sft_status, fw_boot_count, nincrements, since, pollVars,
                   buf_op, buf_prev, buf_before, buf_id, buf_ret, buf_warn,
                   busy_seen>>
    /\ UNCHANGED <<tlvVars, evVars>>
    /\ UNCHANGED <<capsVars, resetVars, probeVars, chanVars>>

\* ef100_mcdi_request on the buffer the caller holds
McRequest(c) ==
    /\ mc_pc[c] = "got"
    /\ LET r == [owner |-> c, seq |-> mc_req[c].seq]
           log == ef100_mcdi_request(dma_base, mc_bufid[c], r, mc_req[c].hdr_len,
                                     r, mc_req[c].sdu_len)
           m == IoRun([pdu |-> pdu, lwrd |-> db_lwrd, hwrd |-> db_hwrd,
                       rung |-> db_rung, taken |-> fw_taken], log)
       IN /\ io_log' = log
          /\ pdu' = m.pdu
          /\ db_lwrd' = m.lwrd
          /\ db_hwrd' = m.hwrd
          /\ db_rung' = m.rung
          /\ fw_taken' = m.taken
    /\ mc_pc' = [mc_pc EXCEPT ![c] = "sent"]
    /\ UNCHANGED <<iface_lock, mc_bufid, mc_req, mc_resp, dma_base, nrequests>>
    /\ UNCHANGED <<tlvVars, evVars, mcdiVars>>
    /\ UNCHANGED <<capsVars, resetVars, probeVars, chanVars>>

\* The firmware answers the request it was handed: the response replaces the
\* request in the buffer, its header carrying the response bit.
FwRespond ==
    /\ db_rung
    /\ db_rung' = FALSE
    /\ pdu' = [s \in Slots |-> [pdu[s] EXCEPT !.response = TRUE]]
    /\ UNCHANGED <<iface_lock, mc_pc, mc_bufid, mc_req, mc_resp, dma_base,
                   db_lwrd, db_hwrd, io_log, fw_taken, nrequests>>
    /\ UNCHANGED <<tlvVars, evVars, mcdiVars>>
    /\ UNCHANGED <<capsVars, resetVars, probeVars, chanVars>>

\* ef100_mcdi_poll_response has returned true: ef100_mcdi_read_response
McReadResponse(c) ==
    /\ mc_pc[c] = "sent"
    /\ ef100_mcdi_poll_response(pdu, mc_bufid[c])
    /\ mc_resp' = [mc_resp EXCEPT ![c] = ef100_mcdi_read_response(pdu, mc_bufid[c])]
    /\ mc_pc' = [mc_pc EXCEPT ![c] = "read"]
    /\ UNCHANGED <<iface_lock, mc_bufid, mc_req, pdu, dma_base, db_lwrd, db_hwrd,
                   db_rung, io_log, fw_taken, nrequests>>
    /\ UNCHANGED <<tlvVars, evVars, mcdiVars>>
    /\ UNCHANGED <<capsVars, resetVars, probeVars, chanVars>>

\* ef100_mcdi_put_buf on the buffer the caller holds
McPutBuf(c) ==
    /\ mc_pc[c] = "read"
    /\ mcdi_buf_use' = ef100_mcdi_put_buf(mcdi_buf_use, mc_bufid[c]).use
    /\ mc_pc' = [mc_pc EXCEPT ![c] = "unlock"]
    /\ UNCHANGED <<iface_lock, mc_bufid, mc_req, mc_resp, pdu, dma_base, db_lwrd,
                   db_hwrd, db_rung, io_log, fw_taken, nrequests>>
    /\ UNCHANGED <<mc_sft_status, fw_boot_count, nincrements, since, pollVars,
                   buf_op, buf_prev, buf_before, buf_id, buf_ret, buf_warn,
                   busy_seen>>
    /\ UNCHANGED <<tlvVars, evVars>>
    /\ UNCHANGED <<capsVars, resetVars, probeVars, chanVars>>

\* The caller drops the MCDI iface lock.
McUnlock(c) ==
    /\ mc_pc[c] = "unlock"
    /\ iface_lock' = 0
    /\ mc_pc' = [mc_pc EXCEPT ![c] = "idle"]
    /\ UNCHANGED <<mc_bufid, mc_req, mc_resp, pdu, dma_base, db_lwrd, db_hwrd,
                   db_rung, io_log, fw_taken, nrequests>>
    /\ UNCHANGED <<tlvVars, evVars, mcdiVars>>
    /\ UNCHANGED <<capsVars, resetVars, probeVars, chanVars>>

NextXport ==
    \/ \E c \in Callers : McWant(c)
    \/ \E c \in Callers : McLock(c)
    \/ \E c \in Callers : McGetBuf(c)
    \/ \E c \in Callers : McRequest(c)
    \/ FwRespond
    \/ \E c \in Callers : McReadResponse(c)
    \/ \E c \in Callers : McPutBuf(c)
    \/ \E c \in Callers : McUnlock(c)

(***************************************************************************)
(***************************************************************************)
(* efx_ef100_init_datapath_caps                                            *)
(***************************************************************************)
\* efx_ef100_has_cap(flags, cap): a flag word is kept as the set of the
\* capabilities whose bit is set in it
efx_ef100_has_cap(flags, cap) == cap \in flags

\* A mutant of efx_ef100_init_datapath_caps: the flag words are stored
\* before the length of the response is examined.
InitDatapathCapsStoreFirst(c, in) ==
    IF in.rpc_rc # 0 THEN [ret |-> in.rpc_rc, caps |-> c]
    ELSE LET c1 == [c EXCEPT !.datapath_caps = in.flags1, !.datapath_caps2 = in.flags2]
         IN  IF in.outlen < MC_CMD_GET_CAPABILITIES_V4_OUT_LEN
             THEN [ret |-> -EIO, caps |-> c1]
             ELSE [ret |-> 0, caps |-> c1]

\* efx_ef100_init_datapath_caps(efx): the return value and the capability
\* state afterwards. in is what efx_mcdi_rpc returned (rpc_rc, outlen and
\* the fields of outbuf) and what efx_mcdi_window_mode_to_stride does for
\* the window mode of the response (its return value and the stride it sets).
efx_ef100_init_datapath_caps(c, in) ==
    IF in.rpc_rc # 0 THEN [ret |-> in.rpc_rc, caps |-> c]
    ELSE IF in.outlen < MC_CMD_GET_CAPABILITIES_V4_OUT_LEN THEN [ret |-> -EIO, caps |-> c]
    ELSE LET c1 == [c EXCEPT !.datapath_caps = in.flags1, !.datapath_caps2 = in.flags2]
         IN  IF in.stride_rc # 0 THEN [ret |-> in.stride_rc, caps |-> c1]
             ELSE LET c2 == [c1 EXCEPT !.vi_stride = in.stride]
                      c3 == IF efx_ef100_has_cap(c2.datapath_caps2, "TX_TSO_V3")
                            THEN [c2 EXCEPT
                                    !.features = @ \cup {"NETIF_F_TSO", "NETIF_F_TSO6"},
                                    !.hw_features = @ \cup {"NETIF_F_TSO"}]
                            ELSE c2
                  IN  [ret |-> 0, caps |-> [c3 EXCEPT !.num_mac_stats = in.num_mac_stats]]

\* what a capability query can bring back
CapsInputs ==
    [rpc_rc : {0, -EIO},
     outlen : {0, MC_CMD_GET_CAPABILITIES_V4_OUT_LEN - 1, MC_CMD_GET_CAPABILITIES_V4_OUT_LEN},
     flags1 : {{}, {"RX_RSS_LIMITED"}},
     flags2 : {{}, {"TX_TSO_V3"}},
     stride_rc : {0, -EIO},
     stride : {8192, 65536},
     num_mac_stats : {0, 96}]

NoCapsInput ==
    [rpc_rc |-> 0, outlen |-> 0, flags1 |-> {}, flags2 |-> {}, stride_rc |-> 0,
     stride |-> 0, num_mac_stats |-> 0]

CapsAtRest ==
    /\ caps_before = caps
    /\ caps_in = NoCapsInput
    /\ caps_ret = 0
    /\ ncaps_calls = 0

\* the capability state before the first query: nothing reported yet
CapsZero(feat) ==
    [datapath_caps |-> {}, datapath_caps2 |-> {}, vi_stride |-> 0,
     features |-> feat, hw_features |-> feat, num_mac_stats |-> 0]

InitCaps ==
    /\ caps \in {CapsZero({}), CapsZero({"NETIF_F_SG"})}
    /\ CapsAtRest

QuietCaps ==
    /\ caps = CapsZero({})
    /\ CapsAtRest

InitDatapathCaps ==
    /\ ncaps_calls < MaxCapsCalls
    /\ ncaps_calls' = ncaps_calls + 1
    /\ \E in \in CapsInputs :
          LET r == efx_ef100_init_datapath_caps(caps, in)
          IN /\ caps' = r.caps
             /\ caps_ret' = r.ret
             /\ caps_in' = in
    /\ caps_before' = caps
    /\ UNCHANGED <<tlvVars, evVars, mcdiVars>>
    /\ UNCHANGED <<xportVars, resetVars, probeVars, chanVars>>

NextCaps == InitDatapathCaps

(***************************************************************************)
(* Filter table and reset (ef100_filter_table_up/down, ef100_reset)        *)
(***************************************************************************)
ResetTypes == {"RESET_TYPE_TX_WATCHDOG", "RESET_TYPE_ALL", "RESET_TYPE_INVISIBLE",
               "RESET_TYPE_DISABLE", "RESET_TYPE_MC_FAILURE"}

\* A mutant of ef100_map_reset_reason: every reason is kept.
MapResetReasonKeepsAll(reason) == reason

\* ef100_map_reset_reason(reason)
ef100_map_reset_reason(reason) ==
    IF reason = "RESET_TYPE_TX_WATCHDOG" THEN reason ELSE "RESET_TYPE_DISABLE"

\* A mutant of ef100_filter_table_up: the result of the second
\* efx_mcdi_filter_add_vlan is dropped.
FilterTableUpDropsError(fu, rc1, rc2) ==
    IF fu THEN [rc |-> 0, filters_up |-> fu, calls |-> <<>>]
    ELSE IF rc1 # 0
    THEN [rc |-> rc1, filters_up |-> fu,
          calls |-> <<"efx_mcdi_filter_add_vlan(UNSPEC)", "efx_mcdi_filter_table_down">>]
    ELSE [rc |-> 0, filters_up |-> TRUE,
          calls |-> <<"efx_mcdi_filter_add_vlan(UNSPEC)", "efx_mcdi_filter_add_vlan(0)">>]

\* A mutant of ef100_filter_table_up: the first VLAN's filters are not
\* deleted when the second add fails.
FilterTableUpLeavesVlan(fu, rc1, rc2) ==
    IF fu THEN [rc |-> 0, filters_up |-> fu, calls |-> <<>>]
    ELSE IF rc1 # 0
    THEN [rc |-> rc1, filters_up |-> fu,
          calls |-> <<"efx_mcdi_filter_add_vlan(UNSPEC)", "efx_mcdi_filter_table_down">>]
    ELSE [rc |-> rc2, filters_up |-> (rc2 = 0),
          calls |-> IF rc2 # 0
                    THEN <<"efx_mcdi_filter_add_vlan(UNSPEC)", "efx_mcdi_filter_add_vlan(0)",
                           "efx_mcdi_filter_table_down">>
                    ELSE <<"efx_mcdi_filter_add_vlan(UNSPEC)", "efx_mcdi_filter_add_vlan(0)">>]

\* ef100_filter_table_up(efx): the return value, nic_data->filters_up and
\* the calls made; rc1 and rc2 are what the two efx_mcdi_filter_add_vlan
\* calls return
ef100_filter_table_up(fu, rc1, rc2) ==
    IF fu THEN [rc |-> 0, filters_up |-> fu, calls |-> <<>>]
    ELSE IF rc1 # 0
    THEN [rc |-> rc1, filters_up |-> fu,
          calls |-> <<"efx_mcdi_filter_add_vlan(UNSPEC)", "efx_mcdi_filter_table_down">>]
    ELSE [rc |-> rc2, filters_up |-> (rc2 = 0),
          calls |-> IF rc2 # 0
                    THEN <<"efx_mcdi_filter_add_vlan(UNSPEC)", "efx_mcdi_filter_add_vlan(0)",
                           "efx_mcdi_filter_del_vlan(UNSPEC)", "efx_mcdi_filter_table_down">>
                    ELSE <<"efx_mcdi_filter_add_vlan(UNSPEC)", "efx_mcdi_filter_add_vlan(0)">>]

\* A mutant of ef100_filter_table_down: filters_up is left set.
FilterTableDownKeepsFlag(fu) ==
    IF ~fu THEN [filters_up |-> fu, calls |-> <<>>]
    ELSE [filters_up |-> fu,
          calls |-> <<"efx_mcdi_filter_del_vlan(0)", "efx_mcdi_filter_del_vlan(UNSPEC)",
                      "efx_mcdi_filter_table_down">>]

\* ef100_filter_table_down(efx): nic_data->filters_up and the calls made
ef100_filter_table_down(fu) ==
    IF ~fu THEN [filters_up |-> fu, calls |-> <<>>]
    ELSE [filters_up |-> FALSE,
          calls |-> <<"efx_mcdi_filter_del_vlan(0)", "efx_mcdi_filter_del_vlan(UNSPEC)",
                      "efx_mcdi_filter_table_down">>]

\* the filter table after ef100_filter_table_probe; fu: both VLANs added
FilterTableProbed(fu) ==
    [vlans |-> IF fu THEN {"UNSPEC", "0"} ELSE {},
     table_up |-> TRUE,
     last |-> IF fu THEN "up" ELSE "none"]

\* The filter table after the filter calls of a log, in order; rc1 and rc2
\* are what the two efx_mcdi_filter_add_vlan calls returned (a failed add
\* installs nothing). Entries that are no filter calls are passed over.
RECURSIVE FilterCalls(_, _, _, _)
FilterCalls(tab, calls, rc1, rc2) ==
    IF calls = <<>> THEN tab
    ELSE LET c == Head(calls)
             t == CASE c = "efx_mcdi_filter_add_vlan(UNSPEC)" ->
                          [tab EXCEPT !.vlans = IF rc1 = 0 THEN @ \cup {"UNSPEC"} ELSE @]
                    [] c = "efx_mcdi_filter_add_vlan(0)" ->
                          [tab EXCEPT !.vlans = IF rc2 = 0 THEN @ \cup {"0"} ELSE @]
                    [] c = "efx_mcdi_filter_del_vlan(UNSPEC)" ->
                          [tab EXCEPT !.vlans = @ \ {"UNSPEC"}]
                    [] c = "efx_mcdi_filter_del_vlan(0)" ->
                          [tab EXCEPT !.vlans = @ \ {"0"}]
                    [] c = "efx_mcdi_filter_table_down" ->
                          [tab EXCEPT !.table_up = FALSE]
                    [] OTHER -> tab
         IN  FilterCalls(t, Tail(calls), rc1, rc2)

\* the latest transition after the calls of a log that left filters_up = fu:
\* an up that added both VLANs, an up that failed, or a down
FilterTableAfter(tab, calls, rc1, rc2, fu) ==
    [FilterCalls(tab, calls, rc1, rc2) EXCEPT
        !.last = IF \E k \in 1..Len(calls) : calls[k] = "efx_mcdi_filter_add_vlan(UNSPEC)"
                 THEN (IF fu THEN "up" ELSE "failed_up")
                 ELSE IF \E k \in 1..Len(calls) : calls[k] = "efx_mcdi_filter_del_vlan(0)"
                 THEN "down"
                 ELSE @]

\* __clear_bit(reset_type, &efx->reset_pending), reset_pending kept as the
\* set of the reset types whose bit is set
\* A mutant: the bit stays.
ClearPendingKeeps(reset_type, pending) == pending

ClearPending(reset_type, pending) == pending \ {reset_type}

\* if (efx->type->attach_reps) efx->type->attach_reps(efx);
AttachReps(has) == IF has THEN <<"attach_reps">> ELSE <<>>

\* down_write(&efx->filter_sem); rc = ef100_filter_table_up(efx);
\* up_write(&efx->filter_sem); if (rc) return rc;
\* A mutant: the error return comes before the up_write.
LockedTableUpLeaks(up) ==
    <<"down_write", "ef100_filter_table_up">> \o up.calls \o
    (IF up.rc # 0 THEN <<>> ELSE <<"up_write">>)

LockedTableUp(up) ==
    <<"down_write", "ef100_filter_table_up">> \o up.calls \o <<"up_write">>

\* ef100_reset(efx, reset_type): the return value, the device afterwards,
\* efx->state, and the calls and stores made, in order. d is the device
\* (filters_up, reset_pending, last_reset, the net device attached and
\* open, filter_sem held for writing); in holds what the calls outside
\* this file return, and jiffies.
ef100_reset(d, st, reset_type, in) ==
    LET d0 == [d EXCEPT !.opened = FALSE]                       \* dev_close
    IN
    IF reset_type = "RESET_TYPE_TX_WATCHDOG"
    THEN [rc |-> in.open_rc,
          dev |-> [d0 EXCEPT !.attached = TRUE,
                             !.reset_pending = ClearPending(reset_type, @),
                             !.opened = (in.open_rc = 0)],
          state |-> "NET_DOWN",
          log |-> <<"dev_close">> \o AttachReps(in.has_attach_reps) \o
                  <<"netif_device_attach", "__clear_bit", "state = STATE_NET_DOWN",
                    "dev_open">>]
    ELSE IF reset_type = "RESET_TYPE_ALL"
    THEN LET dn == ef100_filter_table_down(d0.filters_up)
             d1 == [d0 EXCEPT !.filters_up = dn.filters_up]
             log1 == <<"dev_close", "down_write", "ef100_filter_table_down">> \o dn.calls \o
                     <<"up_write", "efx_mcdi_reset">>
         IN  IF in.mcdi_reset_rc # 0
             THEN [rc |-> in.mcdi_reset_rc, dev |-> d1, state |-> st, log |-> log1]
             ELSE LET up == ef100_filter_table_up(d1.filters_up, in.vlan_rc1, in.vlan_rc2)
                      d2 == [d1 EXCEPT !.last_reset = in.jiffies,
                                       !.attached = TRUE,
                                       !.filters_up = up.filters_up]
                      log2 == log1 \o <<"last_reset = jiffies">> \o
                              AttachReps(in.has_attach_reps) \o
                              <<"netif_device_attach">> \o LockedTableUp(up)
                  IN  IF up.rc # 0
                      THEN [rc |-> up.rc, dev |-> d2, state |-> st, log |-> log2]
                      ELSE [rc |-> in.open_rc,
                            dev |-> [d2 EXCEPT !.opened = (in.open_rc = 0)],
                            state |-> st,
                            log |-> Append(log2, "dev_open")]
    ELSE [rc |-> 1, dev |-> d0, state |-> st, log |-> <<"dev_close">>]

\* filter_sem after the down_write and up_write calls of a log
RECURSIVE SemAfter(_, _)
SemAfter(sem, log) ==
    IF log = <<>> THEN sem
    ELSE SemAfter(IF Head(log) = "down_write" THEN sem + 1
                  ELSE IF Head(log) = "up_write" THEN sem - 1
                  ELSE sem, Tail(log))

\* what the calls made by one ef100_reset can return
\* (only the calls that the reset type makes are given a choice)
ResetInputs(reset_type) ==
    [mcdi_reset_rc : IF reset_type = "RESET_TYPE_ALL" THEN {0, -EIO} ELSE {0},
     vlan_rc1 : IF reset_type = "RESET_TYPE_ALL" THEN {0, -ENETDOWN} ELSE {0},
     vlan_rc2 : IF reset_type = "RESET_TYPE_ALL" THEN {0, -EOPNOTSUPP} ELSE {0},
     open_rc : IF reset_type \in {"RESET_TYPE_ALL", "RESET_TYPE_TX_WATCHDOG"}
               THEN {0, -ENETDOWN} ELSE {0},
     has_attach_reps : IF reset_type \in {"RESET_TYPE_ALL", "RESET_TYPE_TX_WATCHDOG"}
                       THEN BOOLEAN ELSE {FALSE}]

NoResetInput ==
    [mcdi_reset_rc |-> 0, vlan_rc1 |-> 0, vlan_rc2 |-> 0, open_rc |-> 0,
     has_attach_reps |-> FALSE, jiffies |-> 0]

ResetAtRest ==
    /\ rst_type = "none"
    /\ rst_in = NoResetInput
    /\ rst_before = [dev |-> rdev, state |-> state]
    /\ rst_ret = 0
    /\ rst_log = <<>>
    /\ jiffies = 1
    /\ map_reason = "none"
    /\ map_result = "none"

\* a probed device: the net device attached, no filter lock held
DevProbed(fu, pending, opened) ==
    [filters_up |-> fu, reset_pending |-> pending, last_reset |-> 0,
     attached |-> TRUE, opened |-> opened, filter_sem |-> 0]

InitReset ==
    /\ rdev \in {DevProbed(fu, pending, fu) :
                    fu \in BOOLEAN,
                    pending \in {{}, {"RESET_TYPE_TX_WATCHDOG"},
                                 {"RESET_TYPE_TX_WATCHDOG", "RESET_TYPE_ALL"}}}
    /\ ftab = FilterTableProbed(rdev.filters_up)
    /\ ResetAtRest

QuietReset ==
    /\ rdev = DevProbed(FALSE, {}, FALSE)
    /\ ftab = FilterTableProbed(FALSE)
    /\ ResetAtRest

mcdiVarsButState == <<mc_sft_status, fw_boot_count, warm_boot_count, polled,
                      poll_status, poll_before, poll_state_before, poll_since,
                      poll_unavail, poll_rc, poll_ret, since, unavail_seen,
                      nincrements, nreported, mcdi_buf_use, buf_op, buf_prev,
                      buf_before, buf_id, buf_ret, buf_warn, busy_seen>>

Reset ==
    /\ jiffies <= MaxResets
    /\ \E t \in ResetTypes : \E i \in ResetInputs(t) :
          LET in == [mcdi_reset_rc |-> i.mcdi_reset_rc, vlan_rc1 |-> i.vlan_rc1,
                     vlan_rc2 |-> i.vlan_rc2, open_rc |-> i.open_rc,
                     has_attach_reps |-> i.has_attach_reps, jiffies |-> jiffies]
          IN \E r \in {ef100_reset(rdev, state, t, in)} :
             /\ rdev' = [r.dev EXCEPT !.filter_sem = SemAfter(rdev.filter_sem, r.log)]
             /\ state' = r.state
             /\ rst_ret' = r.rc
             /\ rst_log' = r.log
             /\ rst_type' = t
             /\ rst_in' = in
             /\ ftab' = FilterTableAfter(ftab, r.log, in.vlan_rc1, in.vlan_rc2,
                                         r.dev.filters_up)
    /\ rst_before' = [dev |-> rdev, state |-> state]
    /\ jiffies' = jiffies + 1
    \* the record of the latest ef100_map_reset_reason call is dropped
    /\ map_reason' = "none"
    /\ map_result' = "none"
    /\ UNCHANGED mcdiVarsButState
    /\ UNCHANGED <<tlvVars, evVars, xportVars, capsVars, probeVars, chanVars>>

MapResetReason ==
    /\ \E reason \in ResetTypes :
          /\ map_reason' = reason
          /\ map_result' = ef100_map_reset_reason(reason)
    \* the record of the latest ef100_reset call is dropped
    /\ rst_type' = "none"
    /\ rst_in' = NoResetInput
    /\ rst_before' = [dev |-> rdev, state |-> state]
    /\ rst_ret' = 0
    /\ rst_log' = <<>>
    /\ UNCHANGED <<rdev, jiffies, ftab>>
    /\ UNCHANGED <<tlvVars, evVars, mcdiVars, xportVars, capsVars, probeVars, chanVars>>

\* The status register shows all-ones or the magic with the stored counter.
ResetStatusChange ==
    /\ mc_sft_status' \in {[hi |-> 65535, lo |-> 65535],
                           [hi |-> SFT_STATUS_MAGIC, lo |-> fw_boot_count]}
                          \ {mc_sft_status}
    /\ UNCHANGED <<fw_boot_count, nincrements, since, pollVars, poolVars>>
    /\ UNCHANGED <<tlvVars, evVars, otherVars>>

\* ef100_get_warm_boot_count, as the reboot poll and the probe call it
ReadWarmBootCount ==
    /\ state' = IF ef100_get_warm_boot_count(mc_sft_status).disable
                THEN "DISABLED" ELSE state
    /\ UNCHANGED mcdiVarsButState
    /\ UNCHANGED <<tlvVars, evVars, otherVars>>

NextReset ==
    \/ Reset
    \/ MapResetReason
    \/ ResetStatusChange
    \/ ReadWarmBootCount

(***************************************************************************)
(* ef100_filter_table_up and ef100_filter_table_down called in any order   *)
(* on a probed device, as their callers outside this file do.              *)
(***************************************************************************)
InitFilter ==
    /\ rdev \in {DevProbed(fu, {}, fu) : fu \in BOOLEAN}
    /\ ftab = FilterTableProbed(rdev.filters_up)
    /\ ResetAtRest

FilterTableUp ==
    /\ jiffies <= MaxFilterCalls
    /\ \E rc1 \in {0, -ENETDOWN, -ENOMEM} : \E rc2 \in {0, -EOPNOTSUPP, -EIO} :
          \E r \in {ef100_filter_table_up(rdev.filters_up, rc1, rc2)} :
             /\ rdev' = [rdev EXCEPT !.filters_up = r.filters_up]
             /\ rst_ret' = r.rc
             /\ rst_log' = r.calls
             /\ rst_in' = [NoResetInput EXCEPT !.vlan_rc1 = rc1, !.vlan_rc2 = rc2]
             /\ ftab' = FilterTableAfter(ftab, r.calls, rc1, rc2, r.filters_up)
    /\ rst_type' = "ef100_filter_table_up"
    /\ rst_before' = [dev |-> rdev, state |-> state]
    /\ jiffies' = jiffies + 1
    /\ UNCHANGED <<map_reason, map_result>>
    /\ UNCHANGED <<tlvVars, evVars, mcdiVars, xportVars, capsVars, probeVars, chanVars>>

FilterTableDown ==
    /\ jiffies <= MaxFilterCalls
    /\ \E r \in {ef100_filter_table_down(rdev.filters_up)} :
          /\ rdev' = [rdev EXCEPT !.filters_up = r.filters_up]
          /\ rst_log' = r.calls
          /\ ftab' = FilterTableAfter(ftab, r.calls, 0, 0, r.filters_up)
    /\ rst_ret' = 0
    /\ rst_in' = NoResetInput
    /\ rst_type' = "ef100_filter_table_down"
    /\ rst_before' = [dev |-> rdev, state |-> state]
    /\ jiffies' = jiffies + 1
    /\ UNCHANGED <<map_reason, map_result>>
    /\ UNCHANGED <<tlvVars, evVars, mcdiVars, xportVars, capsVars, probeVars, chanVars>>

NextFilter == FilterTableUp \/ FilterTableDown

(***************************************************************************)
(* ef100_probe_main and ef100_remove                                       *)
(***************************************************************************)
\* the design parameters the probe is tried on: header length, header
\* segments and compatibility triples with no value byte, a zero and a one
ProbeTripleSet ==
    {[type |-> t, len |-> Len(b), bytes |-> b] :
        t \in {ESE_EF100_DP_GZ_TSO_MAX_HDR_LEN, ESE_EF100_DP_GZ_TSO_MAX_HDR_NUM_SEGS,
               ESE_EF100_DP_GZ_COMPAT},
        b \in {<<>>, <<0>>, <<1>>}}

ProbeTripleSeqs == UNION {[1..n -> ProbeTripleSet] : n \in 0..MaxTriples}

\* the counters the firmware can show while the probe reads the register
BootCounts == {1, 2}

\* nic_data as kzalloc leaves it
LimitsZero ==
    [tso_max_hdr_len |-> 0, tso_max_frames |-> 0, tso_max_payload_num_segs |-> 0,
     tso_max_payload_len |-> 0, gso_max_size |-> GSO_MAX_SIZE, gso_max_segs |-> 65535]

\* A mutant of the test after ef100_check_design_params: the return code is
\* not looked at.
DesignParamsFailNever(rc) == FALSE

\* if (rc) goto fail, after ef100_check_design_params
DesignParamsFail(rc) == rc # 0

\* A mutant of the retry test: the loop never gives up.
RetriesNeverExhausted(i) == FALSE

\* if (++i == 5) goto fail, with i already incremented
RetriesExhausted(i) == i = BootCountTries

\* the calls of a probe that succeeds with the first boot-count read
ProbedLog ==
    <<"kzalloc", "ef100_check_design_params", "efx_nic_alloc_buffer",
      "ef100_get_warm_boot_count", "ER_GZ_MC_DB_HWRD", "efx_probe_common",
      "efx_get_pf_index", "efx_mcdi_port_get_number", "efx_mcdi_print_fwver",
      "device_create_file">>

\* ef100_probe_main has not been called
ProbeAtEntry ==
    /\ probe_pc = "entry"
    /\ probe_rc = 0
    /\ probe_i = 0
    /\ probe_fail = "none"
    /\ nic_data_live = FALSE
    /\ efx_nic_data = "NULL"
    /\ mcdi_buf_live = FALSE
    /\ port_num = 0
    /\ probe_log = <<>>

\* ef100_probe_main has returned 0: the state the other components run in
QuietProbe ==
    /\ probe_pc = "done"
    /\ probe_rc = 0
    /\ probe_i = 0
    /\ probe_fail = "none"
    /\ nic_data_live = TRUE
    /\ efx_nic_data = "nic_data"
    /\ mcdi_buf_live = TRUE
    /\ port_num = 0
    /\ probe_log = ProbedLog

InitProbe ==
    /\ triples \in ProbeTripleSeqs
    /\ \E pad \in PadBytes : window = PadTo4(EncodeAll(triples), pad)
    /\ total_len = Len(EncodeAll(triples))
    /\ reader = ReaderZero
    /\ offset = 0
    /\ data = <<0, 0, 0, 0>>
    /\ dp_i = 0
    /\ dp_rc = 0
    /\ dp_pc = "idle"
    /\ limits = LimitsZero
    /\ emitted = <<>>
    /\ fed = 0
    /\ tlv_ub = FALSE
    /\ fw_boot_count = 0
    /\ state = "UNINIT"
    /\ McdiAtRest
    /\ ProbeAtEntry

mcdiVarsOfPool == <<polled, poll_status, poll_before, poll_state_before,
                    poll_since, poll_unavail, poll_rc, poll_ret, since,
                    unavail_seen, nincrements, nreported, mcdi_buf_use, buf_op,
                    buf_prev, buf_before, buf_id, buf_ret, buf_warn, busy_seen>>

xportVarsButHwrd == <<iface_lock, mc_pc, mc_bufid, mc_req, mc_resp, pdu,
                      dma_base, db_lwrd, db_rung, io_log, fw_taken, nrequests>>

scanVars == <<triples, window, total_len, reader, offset, data, dp_i, dp_rc,
              emitted, fed, tlv_ub>>

\* goto fail (or an early return) with return code rc at the named step
ProbeFail(rc, step) ==
    /\ probe_pc' = "done"
    /\ probe_rc' = rc
    /\ probe_fail' = step

\* entry .. the call of ef100_check_design_params: the BAR size test, kzalloc
\* and the design-parameter defaults
ProbeEnter ==
    /\ probe_pc = "entry"
    /\ \E bar_size \in {0, 1}, kzalloc_ok \in BOOLEAN :
          IF bar_size = 0
          THEN /\ ProbeFail(-EIO, "bar_size")
               /\ UNCHANGED <<nic_data_live, efx_nic_data, probe_log, limits, dp_pc>>
          ELSE IF ~kzalloc_ok
          THEN /\ ProbeFail(-ENOMEM, "kzalloc")
               /\ probe_log' = Append(probe_log, "kzalloc")
               /\ UNCHANGED <<nic_data_live, efx_nic_data, limits, dp_pc>>
          ELSE /\ nic_data_live' = TRUE
               /\ efx_nic_data' = "nic_data"
               /\ limits' = LimitsDefault
               /\ probe_log' = probe_log \o <<"kzalloc", "ef100_check_design_params">>
               /\ dp_pc' = "while"
               /\ probe_pc' = "design_params"
               /\ UNCHANGED <<probe_rc, probe_fail>>
    /\ UNCHANGED <<probe_i, mcdi_buf_live, port_num>>
    /\ UNCHANGED <<scanVars, evVars, mcdiVars, xportVars, capsVars, resetVars, chanVars>>

\* rc = ef100_check_design_params(efx); if (rc) goto fail;
ProbeDesignParams ==
    /\ probe_pc = "design_params"
    /\ dp_pc = "out"
    /\ IF DesignParamsFail(dp_rc)
       THEN ProbeFail(dp_rc, "design_params")
       ELSE /\ probe_pc' = "alloc_buffer"
            /\ probe_rc' = dp_rc
            /\ UNCHANGED probe_fail
    /\ UNCHANGED <<probe_i, nic_data_live, efx_nic_data, mcdi_buf_live, port_num,
                   probe_log>>
    /\ UNCHANGED <<tlvVars, evVars, mcdiVars, xportVars, capsVars, resetVars, chanVars>>

\* rc = efx_nic_alloc_buffer(.., &nic_data->mcdi_buf, ..); if (rc) goto fail;
\* i = 0;
ProbeAllocBuffer ==
    /\ probe_pc = "alloc_buffer"
    /\ probe_log' = Append(probe_log, "efx_nic_alloc_buffer")
    /\ \E rc \in {0, -ENOMEM} :
          IF rc # 0
          THEN /\ ProbeFail(rc, "alloc_buffer")
               /\ UNCHANGED <<mcdi_buf_live, probe_i>>
          ELSE /\ mcdi_buf_live' = TRUE
               /\ probe_i' = 0
               /\ probe_rc' = rc
               /\ probe_pc' = "boot_count"
               /\ UNCHANGED probe_fail
    /\ UNCHANGED <<nic_data_live, efx_nic_data, port_num>>
    /\ UNCHANGED <<tlvVars, evVars, mcdiVars, xportVars, capsVars, resetVars, chanVars>>

\* one iteration of the retry loop: the register shows what the firmware,
\* possibly rebooting, puts there
ProbeBootCount ==
    /\ probe_pc = "boot_count"
    /\ probe_i <= BootCountTries
    /\ probe_log' = Append(probe_log, "ef100_get_warm_boot_count")
    /\ \E c \in BootCounts : \E reg \in StatusSet(c) :
       \E g \in {ef100_get_warm_boot_count(reg)} :
          /\ fw_boot_count' = c
          /\ mc_sft_status' = reg
          /\ state' = IF g.disable THEN "DISABLED" ELSE state
          /\ IF g.rc >= 0
             THEN /\ warm_boot_count' = g.rc
                  /\ probe_rc' = g.rc
                  /\ probe_pc' = "doorbell"
                  /\ UNCHANGED <<probe_i, probe_fail>>
             ELSE IF RetriesExhausted(probe_i + 1)
             THEN /\ ProbeFail(g.rc, "boot_count")
                  /\ probe_i' = probe_i + 1
                  /\ UNCHANGED warm_boot_count
             ELSE /\ probe_i' = probe_i + 1          \* ssleep(1)
                  /\ probe_rc' = g.rc
                  /\ UNCHANGED <<warm_boot_count, probe_pc, probe_fail>>
    /\ UNCHANGED <<nic_data_live, efx_nic_data, mcdi_buf_live, port_num>>
    /\ UNCHANGED mcdiVarsOfPool
    /\ UNCHANGED <<tlvVars, evVars, xportVars, capsVars, resetVars, chanVars>>

\* _efx_writed(efx, cpu_to_le32(1), efx_reg(efx, ER_GZ_MC_DB_HWRD));
ProbeDoorbell ==
    /\ probe_pc = "doorbell"
    /\ db_hwrd' = 1
    /\ probe_log' = Append(probe_log, "ER_GZ_MC_DB_HWRD")
    /\ probe_pc' = "probe_common"
    /\ UNCHANGED <<probe_rc, probe_i, probe_fail, nic_data_live, efx_nic_data,
                   mcdi_buf_live, port_num>>
    /\ UNCHANGED xportVarsButHwrd
    /\ UNCHANGED <<tlvVars, evVars, mcdiVars, capsVars, resetVars, chanVars>>

\* rc = efx_probe_common(efx); if (rc) goto fail;
ProbeCommon ==
    /\ probe_pc = "probe_common"
    /\ probe_log' = Append(probe_log, "efx_probe_common")
    /\ \E rc \in {0, -EIO} :
          IF rc # 0
          THEN ProbeFail(rc, "probe_common")
          ELSE /\ probe_rc' = rc
               /\ probe_pc' = "pf_index"
               /\ UNCHANGED probe_fail
    /\ UNCHANGED <<probe_i, nic_data_live, efx_nic_data, mcdi_buf_live, port_num>>
    /\ UNCHANGED <<tlvVars, evVars, mcdiVars, xportVars, capsVars, resetVars, chanVars>>

\* rc = efx_get_pf_index(efx, &nic_data->pf_index); if (rc) goto fail;
ProbePfIndex ==
    /\ probe_pc = "pf_index"
    /\ probe_log' = Append(probe_log, "efx_get_pf_index")
    /\ \E rc \in {0, -EIO} :
          IF rc # 0
          THEN ProbeFail(rc, "pf_index")
          ELSE /\ probe_rc' = rc
               /\ probe_pc' = "port_number"
               /\ UNCHANGED probe_fail
    /\ UNCHANGED <<probe_i, nic_data_live, efx_nic_data, mcdi_buf_live, port_num>>
    /\ UNCHANGED <<tlvVars, evVars, mcdiVars, xportVars, capsVars, resetVars, chanVars>>

\* rc = efx_mcdi_port_get_number(efx); if (rc < 0) goto fail;
\* efx->port_num = rc;
ProbePortNumber ==
    /\ probe_pc = "port_number"
    /\ probe_log' = Append(probe_log, "efx_mcdi_port_get_number")
    /\ \E rc \in {-EIO, 0, 1} :
          IF rc < 0
          THEN /\ ProbeFail(rc, "port_number")
               /\ UNCHANGED port_num
          ELSE /\ port_num' = rc
               /\ probe_rc' = rc
               /\ probe_pc' = "fw_version"
               /\ UNCHANGED probe_fail
    /\ UNCHANGED <<probe_i, nic_data_live, efx_nic_data, mcdi_buf_live>>
    /\ UNCHANGED <<tlvVars, evVars, mcdiVars, xportVars, capsVars, resetVars, chanVars>>

\* the firmware version test, device_create_file and return 0
ProbeFwVersion ==
    /\ probe_pc = "fw_version"
    /\ \E old \in BOOLEAN :          \* compare_versions(fw_version, ..) < 0
          IF old
          THEN /\ ProbeFail(-EINVAL, "fw_version")
               /\ probe_log' = Append(probe_log, "efx_mcdi_print_fwver")
          ELSE /\ probe_log' = probe_log \o <<"efx_mcdi_print_fwver", "device_create_file">>
               /\ probe_rc' = 0
               /\ probe_pc' = "done"
               /\ UNCHANGED probe_fail
    /\ UNCHANGED <<probe_i, nic_data_live, efx_nic_data, mcdi_buf_live, port_num>>
    /\ UNCHANGED <<tlvVars, evVars, mcdiVars, xportVars, capsVars, resetVars, chanVars>>

\* ef100_remove(efx), called once the probe has returned
Remove ==
    /\ probe_pc = "done"
    /\ probe_log' = probe_log \o <<"device_remove_file", "efx_remove_common">>
    /\ mcdi_buf_live' = IF efx_nic_data # "NULL" THEN FALSE ELSE mcdi_buf_live
    /\ nic_data_live' = IF efx_nic_data # "NULL" THEN FALSE ELSE nic_data_live
    /\ efx_nic_data' = "NULL"
    /\ probe_pc' = "removed"
    /\ UNCHANGED <<probe_rc, probe_i, probe_fail, port_num>>
    /\ UNCHANGED <<tlvVars, evVars, mcdiVars, xportVars, capsVars, resetVars, chanVars>>

\* the steps of ef100_probe_main, the design-parameter scan among them
ProbeMain ==
    \/ ProbeEnter
    \/ DpReadDword
    \/ DpFeedByte
    \/ ProbeDesignParams
    \/ ProbeAllocBuffer
    \/ ProbeBootCount
    \/ ProbeDoorbell
    \/ ProbeCommon
    \/ ProbePfIndex
    \/ ProbePortNumber
    \/ ProbeFwVersion

NextProbe == ProbeMain \/ Remove

(***************************************************************************)
(* ef100_ev_process on two channels of one NIC. Each channel has its own   *)
(* ring and eventq_read_ptr; the phases of all channels are bits of the    *)
(* one word nic_data->evq_phases, bit number channel->channel. The passes  *)
(* interleave step by step. As in the flood above the pointers are kept    *)
(* modulo two laps. Only the phase of a ring entry matters here, so an     *)
(* entry is its phase bit and every event counts as one unit of work.      *)
(***************************************************************************)
Channels == {0, 1}

\* change_bit(nr, addr): one atomic read-modify-write that flips bit nr
change_bit(nr, word) ==
    IF (word \div (2 ^ nr)) % 2 = 1 THEN word - 2 ^ nr ELSE word + 2 ^ nr

\* A mutant: the pass writes back the whole word it loaded at entry, with
\* its own bit flipped.
CommitPhaseWord(word, loaded, nr, phase, old) ==
    IF phase # old THEN change_bit(nr, loaded) ELSE word

\* if (evq_phase != old_evq_phase) change_bit(channel->channel, evq_phases)
CommitPhaseBit(word, loaded, nr, phase, old) ==
    IF phase # old THEN change_bit(nr, word) ELSE word

\* a channel after efx_init_eventq and ef100_ev_init, no pass running
ChanAtRest ==
    [ring |-> [s \in 0..eventq_mask |-> 1],
     nproduced |-> 0,
     eventq_read_ptr |-> 0,
     pc |-> "idle",
     quota |-> 0,
     spent |-> 0,
     read_ptr |-> 0,
     evq_phase |-> 0,
     old_evq_phase |-> 0,
     loaded |-> 0]

QuietChan ==
    /\ chan = [c \in Channels |-> ChanAtRest]
    /\ nic_evq_phases = 0

ChanConsumed(c) ==
    IF chan[c].pc = "idle" THEN chan[c].eventq_read_ptr ELSE chan[c].read_ptr

\* The device writes the next event of channel c whenever its ring has room.
ChanProduce(c) ==
    /\ (chan[c].nproduced - ChanConsumed(c)) % TwoLaps < RingSize
    /\ chan' = [chan EXCEPT
                   ![c].ring[chan[c].nproduced % RingSize] =
                       (chan[c].nproduced \div RingSize) % 2,
                   ![c].nproduced = (chan[c].nproduced + 1) % TwoLaps]
    /\ UNCHANGED nic_evq_phases
    /\ UNCHANGED <<tlvVars, evVars, mcdiVars>>
    /\ UNCHANGED <<xportVars, capsVars, resetVars, probeVars>>

\* ef100_ev_process on channel c, entry: the loads of the locals
\* (loaded is the word test_bit read the channel's bit from)
ChanProcessBegin(c) ==
    /\ chan[c].pc = "idle"
    /\ \E q \in {1, MaxQuota} :
          chan' = [chan EXCEPT
                      ![c].pc = "loop",
                      ![c].quota = q,
                      ![c].spent = 0,
                      ![c].read_ptr = chan[c].eventq_read_ptr,
                      ![c].evq_phase =
                          IF test_bit(c, nic_evq_phases) THEN 1 ELSE 0,
                      ![c].old_evq_phase =
                          IF test_bit(c, nic_evq_phases) THEN 1 ELSE 0,
                      ![c].loaded = nic_evq_phases]
    /\ UNCHANGED nic_evq_phases
    /\ UNCHANGED <<tlvVars, evVars, mcdiVars>>
    /\ UNCHANGED <<xportVars, capsVars, resetVars, probeVars>>

\* ef100_ev_process on channel c, one test of the while condition and one
\* loop body
ChanProcessIter(c) ==
    /\ chan[c].pc = "loop"
    /\ IF \/ ~LoopCond(chan[c].spent, chan[c].quota)
          \/ chan[c].ring[chan[c].read_ptr % RingSize] # chan[c].evq_phase
       THEN chan' = [chan EXCEPT ![c].pc = "commit"]
       ELSE chan' = [chan EXCEPT
                        ![c].spent = chan[c].spent + 1,
                        ![c].read_ptr = (chan[c].read_ptr + 1) % TwoLaps,
                        ![c].evq_phase =
                            PhaseAfterAdvance(chan[c].read_ptr + 1,
                                              chan[c].evq_phase)]
    /\ UNCHANGED nic_evq_phases
    /\ UNCHANGED <<tlvVars, evVars, mcdiVars>>
    /\ UNCHANGED <<xportVars, capsVars, resetVars, probeVars>>

\* ef100_ev_process on channel c, after the loop: commit read_ptr and the
\* phase, return
ChanProcessEnd(c) ==
    /\ chan[c].pc = "commit"
    /\ nic_evq_phases' = CommitPhaseBit(nic_evq_phases, chan[c].loaded, c,
                                        chan[c].evq_phase,
                                        chan[c].old_evq_phase)
    /\ chan' = [chan EXCEPT
                   ![c] = [ChanAtRest EXCEPT
                              !.ring = chan[c].ring,
                              !.nproduced = chan[c].nproduced,
                              !.eventq_read_ptr = chan[c].read_ptr]]
    /\ UNCHANGED <<tlvVars, evVars, mcdiVars>>
    /\ UNCHANGED <<xportVars, capsVars, resetVars, probeVars>>

NextChan ==
    \E c \in Channels :
        \/ ChanProduce(c)
        \/ ChanProcessBegin(c)
        \/ ChanProcessIter(c)
        \/ ChanProcessEnd(c)

(***************************************************************************)
(* Specifications: one per component, the others at rest                   *)
(***************************************************************************)
QuietOther == QuietXport /\ QuietCaps /\ QuietReset /\ QuietProbe /\ QuietChan

InitSpecTlv == InitTlv /\ QuietEv /\ QuietMcdi /\ QuietOther

SpecTlv == InitSpecTlv /\ [][NextTlv]_vars

InitSpecCont == InitCont /\ QuietEv /\ QuietMcdi /\ QuietOther

SpecCont == InitSpecCont /\ [][NextTlv]_vars

InitSpecTso == InitTso /\ QuietEv /\ QuietMcdi /\ QuietOther

SpecTso == InitSpecTso /\ [][NextTlv]_vars

InitSpecEv == InitEv /\ QuietTlv /\ QuietMcdi /\ QuietOther

SpecEv == InitSpecEv /\ [][NextEv]_vars

InitSpecMcdi == InitMcdi /\ QuietTlv /\ QuietEv /\ QuietOther

InitSpecXport ==
    InitXport /\ QuietTlv /\ QuietEv /\ QuietMcdi /\ QuietCaps /\ QuietReset /\ QuietProbe
    /\ QuietChan

InitSpecCaps ==
    InitCaps /\ QuietTlv /\ QuietEv /\ QuietMcdi /\ QuietXport /\ QuietReset /\ QuietProbe
    /\ QuietChan

InitSpecReset ==
    /\ fw_boot_count = 0
    /\ state \in {"NET_DOWN", "NET_UP"}
    /\ McdiAtRest
    /\ InitReset
    /\ QuietTlv /\ QuietEv /\ QuietXport /\ QuietCaps /\ QuietProbe /\ QuietChan

SpecReset == InitSpecReset /\ [][NextReset]_vars

SpecCaps == InitSpecCaps /\ [][NextCaps]_vars

SpecXport == InitSpecXport /\ [][NextXport]_vars

SpecMcdi == InitSpecMcdi /\ [][NextMcdi]_vars

InitSpecProbe ==
    InitProbe /\ QuietEv /\ QuietXport /\ QuietCaps /\ QuietReset /\ QuietChan

SpecProbe == InitSpecProbe /\ [][NextProbe]_vars

InitSpecChan == QuietChan /\ QuietTlv /\ QuietEv /\ QuietMcdi /\ QuietXport
                /\ QuietCaps /\ QuietReset /\ QuietProbe

SpecChan == InitSpecChan /\ [][NextChan]_vars

InitSpecTrunc == InitTrunc /\ QuietEv /\ QuietMcdi /\ QuietOther

SpecTrunc == InitSpecTrunc /\ [][NextTlv]_vars

InitSpecObs ==
    /\ interrupt_mode = "MSIX"
    \* the second channel of the NIC
    /\ channel_id \in Channels \ {0}
    /\ EvAtRest
    /\ QuietTlv /\ QuietMcdi /\ QuietOther

SpecObs == InitSpecObs /\ [][NextObs]_vars

InitSpecFilter ==
    /\ QuietTlv /\ QuietEv /\ QuietMcdi
    /\ InitFilter
    /\ QuietXport /\ QuietCaps /\ QuietProbe /\ QuietChan

SpecFilter == InitSpecFilter /\ [][NextFilter]_vars

\* a call that has begun runs on: its next step is eventually taken
FairSpecEv ==
    /\ SpecEv
    /\ WF_vars(EvProcessIter) /\ WF_vars(EvProcessEnd) /\ WF_vars(EvMcdiPendingIter)

InitSpecFlood == QuietEv /\ QuietTlv /\ QuietMcdi /\ QuietOther

SpecFlood == InitSpecFlood /\ [][NextFlood]_vars

FairSpecFlood ==
    /\ SpecFlood
    /\ WF_vars(FloodProcessIter) /\ WF_vars(FloodProcessEnd)

\* the probe runs: each of its steps, once possible, is eventually taken
FairSpecProbe == SpecProbe /\ WF_vars(ProbeMain)

(***************************************************************************)
(* C1: TLV round trip. For a window encoded from well-formed triples, the  *)
(* (type, value) pairs emitted while the encoded bytes are fed are exactly *)
(* the pairs of the triples whose encoding has been fed completely, in     *)
(* order; a zero-length triple yields value 0 and no value bits of one     *)
(* triple appear in the next.                                              *)
(***************************************************************************)
C1_RoundTrip ==
    (WellFormed(triples) /\ fed <= total_len) => emitted = PairsWithin(triples, fed)

\* all bytes of two triples fed: a nonzero value, then a zero-length triple
C1_Witness ==
    /\ WellFormed(triples)
    /\ Len(triples) = 2
    /\ fed = total_len
    /\ Len(emitted) = 2
    /\ ~U64IsZero(emitted[1].value)
    /\ triples[2].len = 0
    /\ U64IsZero(emitted[2].value)

(***************************************************************************)
(* C2: a byte greater than 8 fed in state LENGTH makes ef100_tlv_feed      *)
(* return -EOPNOTSUPP, whatever came before; the scan stops with that      *)
(* error, the interpreter is not invoked for the triple and no further     *)
(* byte is fed.                                                            *)
(***************************************************************************)
C2_LongLengthStops ==
    [][ /\ (dp_pc = "for" /\ reader.state = "LENGTH" /\ data[1] > 8)
           => /\ dp_rc' = -EOPNOTSUPP
              /\ dp_pc' = "out"
              /\ emitted' = emitted
              /\ fed' = fed + 1
        /\ dp_pc = "out" => (fed' = fed /\ emitted' = emitted /\ dp_rc' = dp_rc)
      ]_vars

\* the scan was stopped by a long triple that followed a complete one
C2_Witness ==
    /\ dp_pc = "out"
    /\ dp_rc = -EOPNOTSUPP
    /\ reader.state = "LENGTH"
    /\ reader.len > 8
    /\ Len(emitted) >= 1

(***************************************************************************)
(* C3: one ef100_ev_process pass, interrupt mode not POLLED and the MCDI   *)
(* sub-handler returning at most the quota it is given, returns            *)
(* work_done <= quota; it dispatches no entry whose phase bit differs from *)
(* the expected phase when it is read, and nothing after the first such    *)
(* entry.                                                                  *)
(***************************************************************************)
C3_QuotaAndPhase ==
    /\ [][EvProcessEnd =>
            ((interrupt_mode # "POLLED" /\ ~mcdi_over) => ev_ret' <= quota)]_vars
    /\ [][dispatched' # dispatched =>
            (ev_pc = "loop" /\ efx_event(read_ptr).phase = evq_phase)]_vars
    /\ [][(EvProcessIter /\ efx_event(read_ptr).phase # evq_phase) =>
            (ev_pc' = "commit" /\ dispatched' = dispatched)]_vars
    /\ [][ev_pc = "commit" => dispatched' = dispatched]_vars

\* a pass stopped by its quota although the next entry is ready
C3_Witness ==
    /\ ev_pc = "commit"
    /\ interrupt_mode # "POLLED"
    /\ ~mcdi_over
    /\ quota = 2
    /\ spent = quota
    /\ efx_event(read_ptr).phase = evq_phase
    /\ read_ptr < nproduced

(***************************************************************************)
(* C4: from ev_init (phase 0, read pointer 0), once the passes have        *)
(* consumed exactly RingSize entries the stored phase bit has been toggled *)
(* exactly once; after 2 * RingSize entries it has its starting value; the *)
(* stored bit changes only at the end of a pass, by one toggle, and        *)
(* exactly when that pass wrapped to slot 0 an odd number of times.        *)
(***************************************************************************)
C4_PhaseToggles ==
    /\ []((ev_pc = "idle" /\ eventq_read_ptr = RingSize) =>
            (evq_phases = 1 /\ ntoggles = 1))
    /\ []((ev_pc = "idle" /\ eventq_read_ptr = 2 * RingSize) => evq_phases = 0)
    /\ [][evq_phases' # evq_phases =>
            (ev_pc = "commit" /\ ev_pc' = "idle" /\ evq_phases' = 1 - evq_phases)]_vars
    /\ [][EvProcessEnd => ((evq_phases' # evq_phases) <=> (crossings % 2 = 1))]_vars

\* two laps consumed by passes that each wrapped once
C4_Witness ==
    /\ ev_pc = "idle"
    /\ eventq_read_ptr = 2 * RingSize
    /\ ntoggles = 2
    /\ evq_phases = 0

(***************************************************************************)
(* C5: with a producer that writes in ring order with the phase of its lap *)
(* and never overwrites an unconsumed entry, the events are dispatched in  *)
(* the order produced, each once and none skipped, whatever their types;   *)
(* a pass gives up on a phase mismatch only when every event produced so   *)
(* far has been dispatched.                                                *)
(***************************************************************************)
C5_InOrderOnce ==
    /\ [](/\ Len(dispatched) <= nproduced
          /\ \A k \in 1..Len(dispatched) : dispatched[k] = k
          /\ Len(dispatched) = Consumed)
    /\ [][(EvProcessIter /\ spent < quota /\ ev_pc' = "commit") =>
            Len(dispatched) = nproduced]_vars

\* everything dispatched, the second lap holding a driver-internal and an
\* unknown event
C5_Witness ==
    /\ ev_pc = "idle"
    /\ nproduced > RingSize
    /\ Len(dispatched) = nproduced
    /\ \E a, b \in 0..eventq_mask :
          /\ ring[a].type = "DRIVER" /\ ring[a].id > RingSize
          /\ ring[b].type = "UNKNOWN" /\ ring[b].id > RingSize

(***************************************************************************)
(* C6: on an enabled channel ef100_ev_mcdi_pending returns true exactly    *)
(* when an MCDI event is among the ready entries that have not been        *)
(* consumed (from the read pointer up to the producer's position), also    *)
(* when the scan wraps from the last ring slot to slot 0.                  *)
(***************************************************************************)
ReadyHasMcdi ==
    \E k \in (eventq_read_ptr + 1)..nproduced : efx_event(k - 1).type = "MCDI"

C6_PendingExact ==
    (pend_pc = "idle" /\ pend_ret # "none" /\ pend_on /\ pend_stable) =>
        ((pend_ret = "true") <=> ReadyHasMcdi)

\* the same, for a run of ready entries that ends before the last ring slot
C6_PendingExactNoWrap ==
    (/\ pend_pc = "idle" /\ pend_ret # "none" /\ pend_on /\ pend_stable
     /\ (eventq_read_ptr % RingSize) + (nproduced - eventq_read_ptr) < RingSize) =>
        ((pend_ret = "true") <=> ReadyHasMcdi)

(***************************************************************************)
(* Reads of the status word by the latest ef100_mcdi_poll_reboot call      *)
(***************************************************************************)
PollValid == polled /\ ~AllOnes(poll_status) /\ poll_status.hi = SFT_STATUS_MAGIC

PollAllOnes == polled /\ AllOnes(poll_status)

PollBadMagic == polled /\ ~AllOnes(poll_status) /\ poll_status.hi # SFT_STATUS_MAGIC

C8_AllOnesDefers ==
    /\ PollAllOnes =>
          /\ poll_ret = 0
          /\ warm_boot_count = poll_before
          /\ state = "DISABLED"
          /\ unavail_seen
    /\ (PollValid /\ poll_unavail /\ poll_status.lo # poll_before) =>
          /\ poll_ret = -EIO
          /\ warm_boot_count = poll_status.lo
          /\ ~unavail_seen

\* a reboot reported after an all-ones read had deferred it
C8_Witness ==
    /\ PollValid
    /\ poll_unavail
    /\ poll_ret = -EIO
    /\ state = "DISABLED"
    /\ poll_state_before = "DISABLED"

(***************************************************************************)
(* C9, as claimed: on a status word that is not all-ones and lacks the     *)
(* magic 0xb007, ef100_mcdi_poll_reboot signals an error to its caller, an *)
(* outcome other than NoChange, and does not update warm_boot_count.       *)
(***************************************************************************)
C9_BadMagicSignalled ==
    PollBadMagic => (poll_ret # 0 /\ warm_boot_count = poll_before)

(***************************************************************************)
(* C9, amended: on such a word ef100_get_warm_boot_count returns -EIO (not *)
(* the -ENETDOWN of an all-ones read, not a counter), but                  *)
(* ef100_mcdi_poll_reboot returns 0, NoChange, to its caller;              *)
(* warm_boot_count and the device state are not changed.                   *)
(***************************************************************************)
C9_BadMagicSwallowed ==
    PollBadMagic =>
        /\ poll_rc = -EIO
        /\ poll_ret = 0
        /\ warm_boot_count = poll_before
        /\ state = poll_state_before

\* a word without the magic whose low half differs from the stored counter
C9_Witness ==
    /\ PollBadMagic
    /\ poll_status.lo # poll_before
    /\ poll_ret = 0
    /\ since > 0

(***************************************************************************)
(* C10: on the one-slot pool, get_buf succeeds, returning slot 0 and       *)
(* marking it in use, exactly when slot 0 is free; while it is held every  *)
(* get_buf fails and leaves the bitmap unchanged; after put_buf(0) the     *)
(* next get_buf succeeds; no bit other than bit 0 is ever set.             *)
(***************************************************************************)
C10_OneSlot ==
    /\ mcdi_buf_use \in {0, 1}
    /\ buf_op = "get" =>
          /\ buf_ret <=> ~test_bit(0, buf_before)
          /\ buf_ret => (buf_id = 0 /\ mcdi_buf_use = set_bit(0, buf_before))
          /\ ~buf_ret => mcdi_buf_use = buf_before
    /\ (buf_op = "put" /\ buf_id = 0) => ~test_bit(0, mcdi_buf_use)
    /\ (buf_op = "get" /\ buf_prev = "put" /\ ~test_bit(0, buf_before)) => buf_ret

\* a get that succeeds after a put, a get having failed before
C10_Witness ==
    /\ buf_op = "get"
    /\ buf_prev = "put"
    /\ buf_ret
    /\ busy_seen
    /\ mcdi_buf_use = 1

(***************************************************************************)
(* C11: with every caller holding the MCDI iface lock from get_buf through *)
(* request, response read and put_buf, at most one caller holds slot 0 and *)
(* at most one firmware request is in flight at any time, and nobody's     *)
(* request bytes are written to the shared buffer between a caller's       *)
(* request and its read of the response: the buffer holds that caller's    *)
(* request until it has read its own response.                             *)
(***************************************************************************)
Holders == {c \in Callers : mc_pc[c] \in {"got", "sent", "read"}}

InFlight == {c \in Callers : mc_pc[c] = "sent"}

RequestOf(c) == [owner |-> c, seq |-> mc_req[c].seq]

C11_OneInFlight ==
    /\ Cardinality(Holders) <= 1
    /\ Cardinality(InFlight) <= 1
    /\ (Holders # {}) <=> test_bit(0, mcdi_buf_use)
    /\ \A c \in Holders : mc_bufid[c] = 0
    /\ \A c \in InFlight :
          /\ pdu[mc_bufid[c]].hdr = RequestOf(c)
          /\ pdu[mc_bufid[c]].sdu = RequestOf(c)
    /\ \A c \in Callers : mc_pc[c] = "read" => mc_resp[c] = RequestOf(c)

\* a request in flight while another caller, served before, waits for the lock
C11_Witness ==
    \E c, d \in Callers :
        /\ c # d
        /\ mc_pc[c] = "sent"
        /\ pdu[mc_bufid[c]].response
        /\ mc_pc[d] = "want"
        /\ mc_resp[d].owner = d
        /\ mc_req[d].seq > mc_req[c].seq

(***************************************************************************)
(* C12: every ef100_mcdi_request performs, in this order: the header       *)
(* stored at the slot base, the payload stored right after the header, the *)
(* write barrier, the upper 32 bits of the buffer's bus address written to *)
(* the first doorbell register, the lower 32 bits written to the second;   *)
(* no doorbell write precedes a buffer store, the low-word write is last,  *)
(* so the firmware finds the whole request when the doorbell rings.        *)
(***************************************************************************)
C12_RequestOrder ==
    io_log # <<>> =>
        /\ Len(io_log) = 5
        /\ io_log[1].op = "memcpy" /\ io_log[1].at = 0
        /\ io_log[2].op = "memcpy" /\ io_log[2].at = io_log[1].len
        /\ io_log[2].slot = io_log[1].slot
        /\ io_log[3].op = "wmb"
        /\ io_log[4].op = "writed" /\ io_log[4].val = dma_base.hi
        /\ io_log[5].op = "writed" /\ io_log[5].val = dma_base.lo
        /\ io_log[4].reg # io_log[5].reg
        /\ \A i, j \in 1..Len(io_log) :
              (io_log[i].op = "writed" /\ io_log[j].op = "memcpy") => j < i
        /\ fw_taken[io_log[1].slot].hdr = io_log[1].src
        /\ fw_taken[io_log[1].slot].sdu = io_log[2].src
        /\ fw_taken[io_log[1].slot].sdu_at = io_log[1].len

\* a request with an 8-byte header and a payload, at a bus address above 4G
C12_Witness ==
    /\ io_log # <<>>
    /\ io_log[1].len = 8
    /\ io_log[2].len = 4
    /\ dma_base.hi # 0
    /\ db_lwrd = dma_base.hi
    /\ db_hwrd = dma_base.lo
    /\ db_rung

(***************************************************************************)
(* C13: when the channel is not enabled at the start of a pass,            *)
(* ef100_ev_process returns 0 for every quota and ring content, invokes no *)
(* handler and leaves eventq_read_ptr and the channel's phase bit          *)
(* unchanged; ef100_ev_mcdi_pending likewise returns false, without        *)
(* looking at the ring.                                                    *)
(***************************************************************************)
C13_DisabledNoEffect ==
    /\ []((ev_pc = "idle" /\ ~ev_on) => ev_ret = 0)
    /\ []((pend_pc = "idle" /\ pend_ret # "none" /\ ~pend_on) => pend_ret = "false")
    /\ [][(EvProcessBegin /\ ~enabled) =>
            /\ ev_ret' = 0
            /\ ev_pc' = "idle"
            /\ dispatched' = dispatched
            /\ eventq_read_ptr' = eventq_read_ptr
            /\ evq_phases' = evq_phases
            /\ ntoggles' = ntoggles]_vars
    /\ [][(EvMcdiPendingBegin /\ ~enabled) => (pend_ret' = "false" /\ pend_pc' = "idle")]_vars

\* a pass on a stopped channel whose ring holds a ready MCDI event
C13_Witness ==
    /\ ev_pc = "idle"
    /\ ~ev_on
    /\ ~enabled
    /\ ev_ret = 0
    /\ eventq_read_ptr < nproduced
    /\ efx_event(eventq_read_ptr).type = "MCDI"
    /\ efx_event(eventq_read_ptr).phase = evq_phases

(***************************************************************************)
(* C14: when the capability query succeeds as an RPC but its response is   *)
(* shorter than MC_CMD_GET_CAPABILITIES_V4_OUT_LEN,                        *)
(* efx_ef100_init_datapath_caps returns -EIO and none of datapath_caps,    *)
(* datapath_caps2, the VI stride, the net device's TSO features and        *)
(* num_mac_stats has been modified.                                        *)
(***************************************************************************)
CapsShort ==
    /\ ncaps_calls > 0
    /\ caps_in.rpc_rc = 0
    /\ caps_in.outlen < MC_CMD_GET_CAPABILITIES_V4_OUT_LEN

C14_ShortCapsNoChange ==
    CapsShort => (caps_ret = -EIO /\ caps = caps_before)

\* a short response that carried other flags, stride and count than those
\* stored by an earlier, complete one
C14_Witness ==
    /\ CapsShort
    /\ caps_in.outlen = MC_CMD_GET_CAPABILITIES_V4_OUT_LEN - 1
    /\ caps_in.stride_rc = 0
    /\ caps.datapath_caps2 = {"TX_TSO_V3"}
    /\ caps_in.flags2 = {}
    /\ caps_in.flags1 # caps.datapath_caps
    /\ caps_in.stride # caps.vi_stride
    /\ caps_in.num_mac_stats # caps.num_mac_stats

(***************************************************************************)
(* The latest ef100_reset call                                             *)
(***************************************************************************)
InLog(e) == \E k \in 1..Len(rst_log) : rst_log[k] = e

\* the steps of ef100_reset itself, without the calls made inside the
\* filter-table functions and the optional attach_reps
ResetSteps ==
    SelectSeq(rst_log, LAMBDA e : e \in {"dev_close", "down_write", "ef100_filter_table_down",
                                         "up_write", "efx_mcdi_reset", "last_reset = jiffies",
                                         "netif_device_attach", "ef100_filter_table_up",
                                         "__clear_bit", "state = STATE_NET_DOWN", "dev_open"})

FullResetSteps ==
    <<"dev_close", "down_write", "ef100_filter_table_down", "up_write", "efx_mcdi_reset",
      "last_reset = jiffies", "netif_device_attach", "down_write", "ef100_filter_table_up",
      "up_write", "dev_open">>

\* a step that is an ef100_reset call: the only one during which the clock
\* moves
ResetStep == jiffies' # jiffies

RstAll == rst_type = "RESET_TYPE_ALL"

RstWatchdog == rst_type = "RESET_TYPE_TX_WATCHDOG"

RstOther == rst_type \notin {"none", "RESET_TYPE_ALL", "RESET_TYPE_TX_WATCHDOG"}

\* what ef100_filter_table_up is to return for the results of its calls
RebuildRc == IF rst_in.vlan_rc1 # 0 THEN rst_in.vlan_rc1 ELSE rst_in.vlan_rc2

(***************************************************************************)
(* C15: when a full reset (RESET_TYPE_ALL) is requested and the firmware   *)
(* reset command fails, ef100_reset returns that error with the filter     *)
(* table torn down and not rebuilt, the filter lock released, no reset     *)
(* timestamp recorded, no net-device re-attach and no net-device open.     *)
(***************************************************************************)
C15_FwResetFails ==
    (RstAll /\ rst_in.mcdi_reset_rc # 0) =>
        /\ rst_ret = rst_in.mcdi_reset_rc
        /\ ~rdev.filters_up
        /\ rst_before.dev.filters_up => InLog("efx_mcdi_filter_table_down")
        /\ ~InLog("ef100_filter_table_up")
        /\ rdev.filter_sem = 0
        /\ rdev.last_reset = rst_before.dev.last_reset
        /\ ~InLog("last_reset = jiffies")
        /\ ~InLog("netif_device_attach")
        /\ ~InLog("dev_open")
        /\ ~rdev.opened

\* the firmware reset failed on a device that was open with its filters up
C15_Witness ==
    /\ RstAll
    /\ rst_in.mcdi_reset_rc = -EIO
    /\ rst_before.dev.filters_up
    /\ rst_before.dev.opened
    /\ rst_ret = -EIO

(***************************************************************************)
(* C16: a full reset performs, in this order and no other: close of the    *)
(* net device, teardown of the filter table under the filter lock, the     *)
(* firmware reset command, the reset timestamp, the re-attach of the net   *)
(* device, the rebuild of the filter table under the filter lock, the open *)
(* of the net device; when the rebuild fails, its error is returned and    *)
(* the open is not requested.                                              *)
(***************************************************************************)
C16_FullResetOrder ==
    RstAll =>
        /\ \E steps \in {ResetSteps} : steps = SubSeq(FullResetSteps, 1, Len(steps))
        /\ (rst_in.mcdi_reset_rc = 0 /\ RebuildRc = 0) =>
              /\ ResetSteps = FullResetSteps
              /\ rst_ret = rst_in.open_rc
              /\ rdev.filters_up
              /\ rdev.last_reset = rst_in.jiffies
        /\ (rst_in.mcdi_reset_rc = 0 /\ RebuildRc # 0) =>
              /\ ResetSteps = SubSeq(FullResetSteps, 1, Len(FullResetSteps) - 1)
              /\ rst_ret = RebuildRc
              /\ ~InLog("dev_open")
              /\ ~rdev.opened
              /\ ~rdev.filters_up
        /\ rdev.filter_sem = 0

\* the second efx_mcdi_filter_add_vlan of the rebuild failed
C16_Witness ==
    /\ RstAll
    /\ rst_in.mcdi_reset_rc = 0
    /\ rst_in.vlan_rc1 = 0
    /\ rst_in.vlan_rc2 # 0
    /\ rst_before.dev.filters_up
    /\ rst_ret = rst_in.vlan_rc2
    /\ InLog("efx_mcdi_filter_del_vlan(UNSPEC)")

(***************************************************************************)
(* C17: a TX-watchdog reset never tears down or rebuilds the filter table, *)
(* never issues the firmware reset command and never records a reset       *)
(* timestamp; it re-attaches the net device, clears its own bit in         *)
(* reset_pending, sets the device state to NET_DOWN and only then requests *)
(* the open of the net device, whose result it returns.                    *)
(***************************************************************************)
C17_WatchdogReset ==
    /\ [](RstWatchdog =>
            /\ rdev.filters_up = rst_before.dev.filters_up
            /\ ~InLog("ef100_filter_table_down") /\ ~InLog("ef100_filter_table_up")
            /\ ~InLog("efx_mcdi_reset")
            /\ rdev.last_reset = rst_before.dev.last_reset
            /\ ResetSteps = <<"dev_close", "netif_device_attach", "__clear_bit",
                              "state = STATE_NET_DOWN", "dev_open">>
            /\ rdev.reset_pending =
                   rst_before.dev.reset_pending \ {"RESET_TYPE_TX_WATCHDOG"}
            /\ rst_ret = rst_in.open_rc)
    /\ [][(ResetStep /\ RstWatchdog') => state' = "NET_DOWN"]_vars

\* a watchdog reset with two resets pending, on a device that was up,
\* whose open failed
C17_Witness ==
    /\ RstWatchdog
    /\ rst_before.dev.reset_pending = {"RESET_TYPE_TX_WATCHDOG", "RESET_TYPE_ALL"}
    /\ rst_before.state = "NET_UP"
    /\ rst_before.dev.filters_up
    /\ rst_in.open_rc # 0
    /\ rst_in.has_attach_reps

(***************************************************************************)
(* C18: for every reset type other than TX-watchdog and full reset,        *)
(* ef100_reset closes the net device, changes no filter table, issues no   *)
(* firmware reset, opens nothing, leaves the device state unchanged and    *)
(* returns 1; ef100_map_reset_reason maps TX-watchdog to itself and every  *)
(* other reason to RESET_TYPE_DISABLE.                                     *)
(***************************************************************************)
C18_OtherResets ==
    /\ [](RstOther =>
            /\ rst_log = <<"dev_close">>
            /\ ~rdev.opened
            /\ rdev = [rst_before.dev EXCEPT !.opened = FALSE]
            /\ rst_ret = 1)
    /\ [][(ResetStep /\ RstOther') => state' = state]_vars
    /\ [](map_reason # "none" =>
            map_result = (IF map_reason = "RESET_TYPE_TX_WATCHDOG"
                          THEN "RESET_TYPE_TX_WATCHDOG" ELSE "RESET_TYPE_DISABLE"))

\* a reset of another type on a device that was open, its filters up
C18_Witness ==
    /\ rst_type = "RESET_TYPE_MC_FAILURE"
    /\ rst_before.dev.opened
    /\ rst_before.dev.filters_up
    /\ rst_before.dev.reset_pending # {}
    /\ rst_ret = 1

(***************************************************************************)
(* C19: Disabled is terminal: once efx->state is STATE_DISABLED, no reset  *)
(* of any type (TX-watchdog included) and no read of the status word       *)
(* changes it to another value.                                            *)
(***************************************************************************)
C19_DisabledTerminal ==
    (rst_type # "none" /\ rst_before.state = "DISABLED") => state = "DISABLED"

(***************************************************************************)
(* C20: for every TLV type that no case of the interpreter names, and      *)
(* every value, ef100_process_design_param returns 0 and leaves all the    *)
(* limits (TSO header length, payload length, payload segments, frames)    *)
(* unchanged, and the scan goes on to decode and interpret the triples     *)
(* that follow.                                                            *)
(***************************************************************************)
C20_UnknownIgnored ==
    /\ [][(emitted' # emitted /\ reader'.type \notin RecognisedTypes) =>
            /\ dp_rc' = 0
            /\ limits' = limits
            /\ dp_pc' \in {"for", "while"}
            /\ offset' = offset + 1]_vars
    /\ []((dp_pc = "out" /\ dp_rc # 0 /\ reader.state = "TYPE") =>
            reader.type \in RecognisedTypes)

\* an unrecognised two-byte type with a nonzero value, then a header-length
\* parameter that was interpreted
C20_Witness ==
    /\ Len(emitted) = 2
    /\ emitted[1].type \notin RecognisedTypes
    /\ emitted[1].type > 127
    /\ ~U64IsZero(emitted[1].value)
    /\ emitted[2].type = ESE_EF100_DP_GZ_TSO_MAX_HDR_LEN
    /\ limits.tso_max_hdr_len # ESE_EF100_DP_GZ_TSO_MAX_HDR_LEN_DEFAULT
    /\ dp_rc = 0

(***************************************************************************)
(* C21: a COMPAT triple with a nonzero value, or a TSO_MAX_HDR_NUM_SEGS    *)
(* triple whose value is zero (a zero-length one included), makes the scan *)
(* return -EOPNOTSUPP at that triple: it is the last triple interpreted    *)
(* and the last byte fed is its last byte. ef100_probe_main then fails     *)
(* with that code before it allocates the MCDI buffer, reads the warm boot *)
(* count or writes a doorbell.                                             *)
(***************************************************************************)
Refused(t) ==
    \/ t.type = ESE_EF100_DP_GZ_COMPAT /\ \E k \in 1..Len(t.bytes) : t.bytes[k] # 0
    \/ t.type = ESE_EF100_DP_GZ_TSO_MAX_HDR_NUM_SEGS
          /\ \A k \in 1..Len(t.bytes) : t.bytes[k] = 0

HasRefused == \E k \in 1..Len(triples) : Refused(triples[k])

FirstRefused ==
    CHOOSE k \in 1..Len(triples) :
        Refused(triples[k]) /\ \A j \in 1..(k - 1) : ~Refused(triples[j])

ProbeLogHas(e) == \E k \in 1..Len(probe_log) : probe_log[k] = e

ProbeReturned == probe_pc \in {"done", "removed"}

C21_UnsupportedStopsProbe ==
    HasRefused =>
        /\ Len(emitted) <= FirstRefused
        /\ fed <= Len(EncodeAll(SubSeq(triples, 1, FirstRefused)))
        /\ dp_pc = "out" =>
              /\ dp_rc = -EOPNOTSUPP
              /\ Len(emitted) = FirstRefused
              /\ emitted[FirstRefused] = PairOf(triples[FirstRefused])
              /\ fed = Len(EncodeAll(SubSeq(triples, 1, FirstRefused)))
        /\ (ProbeReturned /\ probe_fail \notin {"bar_size", "kzalloc"}) =>
              /\ probe_fail = "design_params"
              /\ probe_rc = -EOPNOTSUPP
        /\ ~mcdi_buf_live
        /\ ~ProbeLogHas("efx_nic_alloc_buffer")
        /\ ~ProbeLogHas("ef100_get_warm_boot_count")
        /\ ~ProbeLogHas("ER_GZ_MC_DB_HWRD")
        /\ probe_pc \notin {"alloc_buffer", "boot_count", "doorbell"}
        /\ db_hwrd = 0
        /\ warm_boot_count = 0

\* the probe has failed on a zero-length TSO_MAX_HDR_NUM_SEGS triple that a
\* further triple follows
C21_Witness ==
    /\ probe_pc = "done"
    /\ probe_fail = "design_params"
    /\ probe_rc = -EOPNOTSUPP
    /\ Len(triples) = 2
    /\ triples[1].type = ESE_EF100_DP_GZ_TSO_MAX_HDR_NUM_SEGS
    /\ triples[1].len = 0
    /\ Len(emitted) = 1
    /\ fed < total_len

(***************************************************************************)
(* C22: during ef100_probe_main the warm boot count is read at most 5      *)
(* times. The first read that returns a count ends the loop and that count *)
(* is stored in nic_data->warm_boot_count; the probe fails at this step,   *)
(* with the negative code of the last read and with no doorbell written,   *)
(* exactly when 5 reads have failed. The loop always terminates.           *)
(***************************************************************************)
RECURSIVE CountIn(_, _)
CountIn(log, e) ==
    IF log = <<>> THEN 0
    ELSE (IF Head(log) = e THEN 1 ELSE 0) + CountIn(Tail(log), e)

BootReads == CountIn(probe_log, "ef100_get_warm_boot_count")

\* the loop was left through break
BootCountRead ==
    \/ probe_pc \in {"doorbell", "probe_common", "pf_index", "port_number", "fw_version"}
    \/ ProbeReturned /\ probe_fail \in {"none", "probe_common", "pf_index",
                                        "port_number", "fw_version"}

C22_BootCountLoop ==
    /\ BootReads <= BootCountTries
    \* in the loop: every read so far has failed
    /\ probe_pc = "boot_count" =>
          /\ BootReads = probe_i
          /\ probe_i < BootCountTries
          /\ warm_boot_count = 0
    \* left through break: failed reads, then the one whose count is stored
    /\ BootCountRead =>
          /\ BootReads = probe_i + 1
          /\ mc_sft_status.hi = SFT_STATUS_MAGIC
          /\ warm_boot_count = mc_sft_status.lo
    \* left through goto fail
    /\ probe_fail = "boot_count" =>
          /\ BootReads = BootCountTries
          /\ probe_i = BootCountTries
          /\ probe_rc \in {-EIO, -ENETDOWN}
          /\ warm_boot_count = 0
          /\ ~ProbeLogHas("ER_GZ_MC_DB_HWRD")
          /\ db_hwrd = 0
    /\ probe_i = BootCountTries => probe_fail = "boot_count"

C22_BootCountRetries ==
    /\ []C22_BootCountLoop
    /\ (probe_pc = "boot_count") ~> (probe_pc # "boot_count")

\* the probe has failed after five reads, the last of them all-ones
C22_Witness ==
    /\ probe_pc = "done"
    /\ probe_fail = "boot_count"
    /\ BootReads = 5
    /\ probe_rc = -ENETDOWN
    /\ state = "DISABLED"

(***************************************************************************)
(* C23: when ef100_probe_main has returned an error, at whichever step     *)
(* (design parameters, MCDI buffer allocation, boot-count retries, common  *)
(* probe, PF index, port number, firmware version), nic_data and the MCDI  *)
(* buffer have been released and efx->nic_data no longer refers to         *)
(* nic_data.                                                               *)
(***************************************************************************)
C23_FailureUnwinds ==
    (probe_pc = "done" /\ probe_rc < 0
        /\ probe_fail \in {"design_params", "alloc_buffer", "boot_count",
                           "probe_common", "pf_index", "port_number", "fw_version"})
    => /\ ~nic_data_live
       /\ ~mcdi_buf_live
       /\ efx_nic_data = "NULL"

(***************************************************************************)
(* C24: ef100_ev_mcdi_pending terminates on every ring content and every   *)
(* read-pointer position: a scan that has begun returns, also when every   *)
(* slot carries the expected phase and no slot holds an MCDI event.        *)
(***************************************************************************)
C24_PendingTerminates == (pend_pc = "scan") ~> (pend_pc = "idle")

(***************************************************************************)
(* C25: ef100_ev_process returns control: a pass that has begun ends, also *)
(* when the device keeps appending events during the pass and the events   *)
(* consume no quota.                                                       *)
(***************************************************************************)
C25_ProcessReturns == (ev_pc = "loop") ~> (ev_pc = "idle")

(***************************************************************************)
(* C26: work accounting of one ef100_ev_process pass, interrupt mode not   *)
(* POLLED. The value returned is the number of RX events dispatched plus,  *)
(* for each MCDI event, the positive count its sub-handler reported, or 1  *)
(* if it reported an error (0 if it reported 0); TX-completion, driver and *)
(* unknown events add nothing. In particular a ring of N entries, all      *)
(* ready and all RX, that does not change during a pass of quota > N gives *)
(* work_done = N, the read pointer advanced by N and the phase flipped.    *)
(***************************************************************************)
EvReturnStep == ev_pc = "commit" /\ ev_pc' = "idle"

FullRxPass ==
    /\ ev_acct.full_rx
    /\ nproduced = eventq_read_ptr + RingSize
    /\ quota > RingSize

C26_WorkAccounting ==
    [][ /\ ev_pc' = "loop" => spent' = ev_acct'.sum
        /\ (EvReturnStep /\ interrupt_mode # "POLLED") =>
              /\ ev_ret' = ev_acct.sum
              /\ FullRxPass =>
                    /\ ev_ret' = RingSize
                    /\ eventq_read_ptr' = eventq_read_ptr + RingSize
                    /\ evq_phases' = 1 - evq_phases
      ]_vars

\* a pass is about to return after an RX event, an MCDI event whose
\* sub-handler reported an error and an event that adds nothing
C26_Witness ==
    /\ ev_pc = "commit"
    /\ interrupt_mode # "POLLED"
    /\ ev_acct.sum = 2
    /\ ev_acct.err = 1
    /\ spent = 2
    /\ read_ptr - eventq_read_ptr = 3

\* a pass over a full ring of RX events, with quota to spare, is about to return
C26_FullRingWitness ==
    /\ ev_pc = "commit"
    /\ interrupt_mode # "POLLED"
    /\ FullRxPass
    /\ spent = RingSize

(***************************************************************************)
(* C27: after a TYPE byte b0 with bit 7 set and a continuation byte b1,    *)
(* whatever its value, the type is (b0 & 0x7f) | (b1 << 7), a number below *)
(* 2^15 (bit 15 is 0), and the reader is in state LENGTH.                  *)
(***************************************************************************)
C27_TypeContinuation ==
    /\ [][ /\ (dp_pc = "for" /\ reader.state = "TYPE" /\ data[1] >= 128) =>
                /\ reader'.state = "TYPE_CONT"
                /\ reader'.type = data[1] - 128
           /\ (dp_pc = "for" /\ reader.state = "TYPE_CONT") =>
                /\ reader'.state = "LENGTH"
                /\ reader'.type = reader.type + 128 * data[1]
                /\ reader'.type < 32768
         ]_vars
    /\ [](fed = 2 => /\ reader.state = "LENGTH"
                     /\ reader.type = (window[1] % 128) + 128 * window[2])

\* the continuation byte 255, bit 7 set, has been fed after the type byte 255
C27_Witness ==
    /\ fed = 2
    /\ window[1] = 255
    /\ window[2] = 255
    /\ reader.state = "LENGTH"
    /\ reader.type = 32767

(***************************************************************************)
(* C28: during a scan ef100_process_design_param is invoked exactly once   *)
(* per completed triple, right after the byte that completes it: a LENGTH  *)
(* byte of 0 or the last VALUE byte. It is not invoked after a TYPE byte,  *)
(* a TYPE_CONT byte, a nonzero LENGTH byte or a VALUE byte that is not the *)
(* last, and it is given the type and the value of the triple.             *)
(***************************************************************************)
Completing ==
    \/ reader.state = "LENGTH" /\ data[1] = 0
    \/ reader.state = "VALUE" /\ reader.value_offset + 1 = reader.len

C28_OncePerTriple ==
    /\ [][ dp_pc = "for" =>
              IF Completing
              THEN /\ Len(emitted') = Len(emitted) + 1
                   /\ emitted'[Len(emitted')] = [type |-> reader'.type,
                                                 value |-> reader'.value]
                   /\ reader'.state = "TYPE"
              ELSE emitted' = emitted
         ]_vars
    /\ [][dp_pc # "for" => emitted' = emitted]_vars
    \* as many invocations as triples whose last byte has been fed
    /\ [](WellFormed(triples) /\ fed <= total_len =>
             Len(emitted) = Len(PairsWithin(triples, fed)))

\* a two-byte type with a two-byte value, then a zero-length triple: seven
\* bytes fed, two invocations
C28_Witness ==
    /\ Len(triples) = 2
    /\ triples[1].type >= 128
    /\ triples[1].len = 2
    /\ triples[2].len = 0
    /\ triples[2].type < 128
    /\ fed = 7
    /\ Len(emitted) = 2

(***************************************************************************)
(* C29: for every declared total length L, a multiple of 4 or not, a scan  *)
(* that meets no error feeds the decoder exactly the L bytes of the        *)
(* stream and no byte at an offset >= L.                                   *)
(***************************************************************************)
C29_FeedsExactlyL ==
    /\ dp_rc = 0 => fed <= total_len
    /\ (dp_pc = "out" /\ dp_rc = 0) => fed = total_len

(***************************************************************************)
(* C30: saturating clamps. A TSO limit triple with value v sets            *)
(* tso_max_hdr_len, tso_max_payload_num_segs or tso_max_frames to          *)
(* min(v, 0xffff), or tso_max_payload_len to min(v, GSO_MAX_SIZE),         *)
(* according to its type, and leaves the other three limits as they were.  *)
(* After a whole stream the three 16-bit limits are at most 0xffff;        *)
(* tso_max_payload_len is at most GSO_MAX_SIZE if the stream carries a     *)
(* TSO_MAX_PAYLOAD_LEN triple, and is its default otherwise.               *)
(***************************************************************************)
\* min(v, c) for the value that the bytes of a triple spell out
ClampOf(bytes, c) ==
    LET n == (IF Len(bytes) >= 1 THEN bytes[1] ELSE 0)
             + 256 * (IF Len(bytes) >= 2 THEN bytes[2] ELSE 0)
             + 65536 * (IF Len(bytes) >= 3 THEN bytes[3] ELSE 0)
        big == \E k \in 4..Len(bytes) : bytes[k] # 0
    IN  IF big \/ n > c THEN c ELSE n

TsoLimits(lim) ==
    <<lim.tso_max_hdr_len, lim.tso_max_payload_len, lim.tso_max_payload_num_segs,
      lim.tso_max_frames>>

\* the four limits after the triple t has been interpreted
TsoLimitsAfter(lim, t) ==
    CASE t.type = ESE_EF100_DP_GZ_TSO_MAX_HDR_LEN ->
            <<ClampOf(t.bytes, 65535), lim.tso_max_payload_len,
              lim.tso_max_payload_num_segs, lim.tso_max_frames>>
      [] t.type = ESE_EF100_DP_GZ_TSO_MAX_PAYLOAD_LEN ->
            <<lim.tso_max_hdr_len, ClampOf(t.bytes, GSO_MAX_SIZE),
              lim.tso_max_payload_num_segs, lim.tso_max_frames>>
      [] t.type = ESE_EF100_DP_GZ_TSO_MAX_PAYLOAD_NUM_SEGS ->
            <<lim.tso_max_hdr_len, lim.tso_max_payload_len,
              ClampOf(t.bytes, 65535), lim.tso_max_frames>>
      [] t.type = ESE_EF100_DP_GZ_TSO_MAX_NUM_FRAMES ->
            <<lim.tso_max_hdr_len, lim.tso_max_payload_len,
              lim.tso_max_payload_num_segs, ClampOf(t.bytes, 65535)>>
      [] OTHER -> TsoLimits(lim)

HasPayloadLen ==
    \E k \in 1..Len(triples) : triples[k].type = ESE_EF100_DP_GZ_TSO_MAX_PAYLOAD_LEN

PhaseBitOf(c) == IF test_bit(c, nic_evq_phases) THEN 1 ELSE 0

ChanPassStep(a) == chan'[a].pc # chan[a].pc

C31_BitIsOwnParity ==
    \A c \in Channels :
        chan[c].pc = "idle" =>
            PhaseBitOf(c) = (chan[c].eventq_read_ptr \div RingSize) % 2

C31_ChannelsIndependent ==
    /\ []C31_BitIsOwnParity
    /\ [][\A a \in Channels : \A b \in Channels \ {a} :
             ChanPassStep(a) =>
                /\ chan'[b].eventq_read_ptr = chan[b].eventq_read_ptr
                /\ test_bit(b, nic_evq_phases') = test_bit(b, nic_evq_phases)]_vars

\* channel 0 has flipped its bit while channel 1, which loaded the word
\* before that, is about to flip its own
C31_Witness ==
    /\ chan[0].pc = "idle"
    /\ test_bit(0, nic_evq_phases)
    /\ chan[1].pc = "commit"
    /\ ~test_bit(0, chan[1].loaded)
    /\ chan[1].evq_phase # chan[1].old_evq_phase

(***************************************************************************)
(* C32: between passes of ef100_ev_process the stored phase bit of the     *)
(* channel is the parity of the laps its read pointer has completed,       *)
(* (eventq_read_ptr / ring size) mod 2. The pointer is kept modulo two     *)
(* laps, which divide 2^32, so the step from the last entry of an odd lap  *)
(* back to 0 is the step across the 32-bit wrap as well.                   *)
(***************************************************************************)
C32_PhaseIsLapParity ==
    ev_pc = "idle" => evq_phases = (eventq_read_ptr \div RingSize) % 2

\* Between passes at the start of an even lap, pointer and phase both back
\* at 0, after the pointer wrapped: the last ring entry holds an event of
\* an odd lap, and the device has written on into the lap after it.
C32_Witness ==
    /\ ev_pc = "idle"
    /\ eventq_read_ptr = 0
    /\ evq_phases = 0
    /\ ring[eventq_mask].phase = 1
    /\ ring[eventq_mask].type = "RX_PKTS"
    /\ ring[0].phase = 0
    /\ nproduced = 1

(***************************************************************************)
(* C33: the reader's invariant over the feeds of a scan. As claimed: len   *)
(* is at most 8 after every feed, accepted or rejected, and in state VALUE *)
(* 1 <= len <= 8 and value_offset < len. What holds: len is above 8        *)
(* exactly after a rejected LENGTH byte, which is stored before it is      *)
(* tested and leaves the reader in LENGTH; in state VALUE                  *)
(* 1 <= len <= 8 and value_offset < len, and no value byte is ever         *)
(* shifted by 64 bits or more.                                             *)
(***************************************************************************)
ValueStateInRange ==
    reader.state = "VALUE" =>
        /\ 1 <= reader.len
        /\ reader.len <= 8
        /\ reader.value_offset < reader.len

C33_LenAtMostEight ==
    /\ reader.len <= 8
    /\ ValueStateInRange

C33_ReaderInvariant ==
    /\ reader.len > 8 =>
          /\ reader.state = "LENGTH"
          /\ dp_rc = -EOPNOTSUPP
          /\ dp_pc = "out"
    /\ dp_rc = 0 => reader.len <= 8
    /\ ValueStateInRange
    /\ ~tlv_ub

\* an 8-byte value went through whole, its last byte shifted by 56 bits,
\* and the next triple's length byte of 255 was refused
C33_Witness ==
    /\ dp_pc = "out"
    /\ reader.state = "LENGTH"
    /\ reader.len = 255
    /\ Len(emitted) = 1
    /\ emitted[1].value[8] = 255

(***************************************************************************)
(* C34: ef100_filter_table_up on a table that is up, and                   *)
(* ef100_filter_table_down on one that is not, make no filter call and     *)
(* change nothing. filters_up is set exactly when the latest transition    *)
(* was an up that added both VLANs, and then both are installed. After a   *)
(* failed up, and after a down, no VLAN of the two is installed, the table *)
(* is down and filters_up is clear.                                        *)
(***************************************************************************)
FilterStep == jiffies' # jiffies

FilterNoOp ==
    \/ rst_type' = "ef100_filter_table_up" /\ rdev.filters_up
    \/ rst_type' = "ef100_filter_table_down" /\ ~rdev.filters_up

C34_FiltersUpTruthful ==
    /\ rdev.filters_up <=> ftab.last = "up"
    /\ rdev.filters_up => ftab.vlans = {"UNSPEC", "0"}
    /\ ftab.last \in {"failed_up", "down"} =>
          /\ ftab.vlans = {}
          /\ ~ftab.table_up
    /\ (rst_type = "ef100_filter_table_up" /\ rst_ret # 0) =>
          /\ ftab.last = "failed_up"
          /\ ~rdev.filters_up

C34_FilterTableIdempotent ==
    /\ []C34_FiltersUpTruthful
    /\ [][(FilterStep /\ FilterNoOp) =>
             /\ rst_log' = <<>>
             /\ rst_ret' = 0
             /\ rdev' = rdev
             /\ ftab' = ftab]_vars

\* an up whose second add failed, on a table taken down before
C34_Witness ==
    /\ rst_type = "ef100_filter_table_up"
    /\ rst_ret = -EOPNOTSUPP
    /\ ftab.last = "failed_up"
    /\ ftab.vlans = {}
    /\ rst_log = <<"efx_mcdi_filter_add_vlan(UNSPEC)", "efx_mcdi_filter_add_vlan(0)",
                   "efx_mcdi_filter_del_vlan(UNSPEC)", "efx_mcdi_filter_table_down">>
    /\ jiffies > 3

(***************************************************************************)
(* C35: in the calls of one ef100_reset, taken in order, the filter lock   *)
(* is held for writing at ef100_filter_table_down, ef100_filter_table_up   *)
(* and every filter call they make; it is not held at efx_mcdi_reset and   *)
(* at dev_open; it is taken only when free; and it is free when the        *)
(* function returns, whichever return is taken.                            *)
(***************************************************************************)
FilterTableCalls ==
    {"ef100_filter_table_down", "ef100_filter_table_up",
     "efx_mcdi_filter_add_vlan(UNSPEC)", "efx_mcdi_filter_add_vlan(0)",
     "efx_mcdi_filter_del_vlan(UNSPEC)", "efx_mcdi_filter_del_vlan(0)",
     "efx_mcdi_filter_table_down"}

RECURSIVE LockDiscipline(_, _)
LockDiscipline(held, log) ==
    IF log = <<>> THEN ~held
    ELSE LET c == Head(log)
         IN  CASE c = "down_write" -> ~held /\ LockDiscipline(TRUE, Tail(log))
               [] c = "up_write" -> held /\ LockDiscipline(FALSE, Tail(log))
               [] c \in FilterTableCalls -> held /\ LockDiscipline(held, Tail(log))
               [] c \in {"efx_mcdi_reset", "dev_open"} ->
                      ~held /\ LockDiscipline(held, Tail(log))
               [] OTHER -> LockDiscipline(held, Tail(log))

C35_FilterLockDiscipline ==
    rst_type \in ResetTypes =>
        /\ LockDiscipline(FALSE, rst_log)
        /\ rdev.filter_sem = 0

\* a full reset that took the filters down under the lock, reset the
\* firmware, and returned the error of the rebuild
C35_Witness ==
    /\ rst_type = "RESET_TYPE_ALL"
    /\ rst_before.dev.filters_up
    /\ rst_in.mcdi_reset_rc = 0
    /\ rst_ret = -EOPNOTSUPP
    /\ \E k \in 1..Len(rst_log) : rst_log[k] = "efx_mcdi_filter_del_vlan(0)"
    /\ \E k \in 1..Len(rst_log) : rst_log[k] = "efx_mcdi_filter_del_vlan(UNSPEC)"
    /\ rst_log[Len(rst_log)] = "up_write"

(***************************************************************************)
(* C36: a step of ef100_ev_mcdi_pending and a call of ef100_ev_read_ack    *)
(* leave eventq_read_ptr and the channel's phase bit as they were,         *)
(* whatever the ring holds; and each write of the prime register carries   *)
(* the channel's id and the stored read pointer masked to the ring, the    *)
(* pointer being the one the latest pass stored.                           *)
(***************************************************************************)
PendStep ==
    \/ pend_pc' # pend_pc
    \/ pend_ret' # pend_ret
    \/ pend_stable' /\ ~pend_stable

AckStep == evq_prime' # evq_prime

C36_ObserversChangeNothing ==
    [][ /\ (PendStep \/ (AckStep /\ ev_pc = "idle")) =>
               /\ eventq_read_ptr' = eventq_read_ptr
               /\ evq_phases' = evq_phases
        /\ AckStep =>
               /\ evq_prime'.id = channel_id
               /\ evq_prime'.idx = eventq_read_ptr' % RingSize
               /\ evq_prime'.idx \in 0..eventq_mask
      ]_vars

\* channel 1, its passes a lap and a half into the ring: a pending scan
\* has returned and the acknowledgement has written index 1
C36_Witness ==
    /\ channel_id = 1
    /\ ev_pc = "idle"
    /\ eventq_read_ptr = RingSize + 1
    /\ evq_phases = 1
    /\ pend_pc = "idle"
    /\ pend_ret \in {"true", "false"}
    /\ evq_prime = [id |-> 1, idx |-> 1]

(***************************************************************************)
(* C37: when the stream of total_len bytes ends inside a triple, the scan  *)
(* returns 0, the interpreter has been called for the complete triples     *)
(* before it and for nothing else, and the limits are those the complete   *)
(* triples give, starting from the defaults.                               *)
(***************************************************************************)
RECURSIVE LimitsAfterPairs(_, _)
LimitsAfterPairs(lim, pairs) ==
    IF pairs = <<>> THEN lim
    ELSE LimitsAfterPairs(
             ef100_process_design_param(
                 lim, [ReaderZero EXCEPT !.type = Head(pairs).type,
                                         !.value = Head(pairs).value]).limits,
             Tail(pairs))

C37_TruncatedTripleIgnored ==
    (dp_pc = "out" /\ MidTriple(triples, total_len)) =>
        /\ dp_rc = 0
        /\ emitted = PairsWithin(triples, total_len)
        /\ limits = LimitsAfterPairs(LimitsDefault, PairsWithin(triples, total_len))

====
